---- MODULE Spec2Model ----
(***************************************************************************)
(* Model of the ingestion pipeline of ryeku-ai (backend/app/services):     *)
(* the Cache helper, GoogleSearchClient (paginated, cached, retried),      *)
(* TavilyClient.search / TavilyClient.extract (cached, wrapped by _retry)  *)
(* and IngestionService.ingest_topic (search, extract fan-out, validate).  *)
(*                                                                         *)
(* Scheduling is asyncio's: one task runs at a time and control changes    *)
(* hands only at an await.  An action is the code a task runs between two  *)
(* suspension points.  A client program drives one public operation        *)
(* (entry) and repeats the same request any number of times.               *)
(***************************************************************************)
EXTENDS Integers, Sequences, FiniteSets, TLC

VARIABLES
    entry,       \* the public operation driven: "google" | "tavily_search" | "tavily_extract" | "ingest"
    now,         \* wall clock, seconds
    useRedis,    \* Cache._use_redis
    memCache,    \* Cache._mem_cache: key -> value
    redisStore,  \* the shared store: key -> [value, expiry]
    gState,      \* GoogleSearchClient.search: "idle" | "running" | "returned" | "raised"
    gArgs,       \* its arguments [query, max_results]
    gTasks,      \* its page tasks, in creation order
    gNext,       \* index of the task the for-loop awaits next
    gResults,    \* its local list `results`
    gRet,        \* what it returned
    gFetched,    \* history: cache key -> time a provider request for it last succeeded
    gPrior,      \* history: gFetched as it was when the current search began
    gOrder,      \* history: the page tasks of the current search, in completion order
    tLegacy,     \* TavilyClient._client is not None (an injected httpx client)
    tArgs,       \* TavilyClient.search arguments [query, max_results, freshness]
    tTask,       \* the running (or last) search call
    tLast,       \* history: the results search last obtained from the provider, and when
    tSeen,       \* history: tLast as it was when the current call began
    xTasks,      \* TavilyClient.extract calls in flight (one per URL)
    xLast,       \* history: the content a directly driven extract last obtained, and when
    xSeen,       \* history: xLast as it was when the current call began
    xOrder,      \* history: the extract tasks in flight, in completion order
    iState,      \* ingest_topic: "idle" | "searching" | "fetching" | "returned" | "raised"
    iInjected,   \* IngestionService was built with an injected google_search
    iTavily,     \* IngestionService was built with an injected tavily
    iDocs,       \* what ingest_topic returned
    env,         \* os.environ: which of the credentials are set (and not empty)
    built,       \* construction of the client or service driven:
                 \* "no" (not yet) | "yes" | "ValueError" | "RuntimeError"
    redisUp,     \* the shared store at REDIS_URL is reachable
    cTasks,      \* client tasks calling Cache.get / Cache.set directly
    cWrote,      \* history: key -> the value of the last completed set, and
                 \*          whether it completed at the present instant
    dState,      \* DocumentTransformer.transform: "uncalled" | "idle" | "chunking" | "done"
    dDoc,        \* the CleanDocument given to transform [id, cleaned_text, metadata]
    dSentences,  \* its local list `sentences`
    dPos,        \* _chunk_sentences: index of the sentence the for-loop takes next
    dCurrent,    \* _chunk_sentences: current_chunk, as indices into dSentences
    dTokens,     \* _chunk_sentences: current_tokens
    dCarried,    \* history: how many sentences of current_chunk came as overlap
    dChunks,     \* the chunks yielded so far
    dOut,        \* what transform returned
    dDepth,      \* how many times the text was taken from a chunk of the call before
    bState,      \* transform_bulk: "off" | "idle" | "running" | "returned"
    bDocs,       \* its argument docs
    bPos,        \* position in docs of the document being transformed
    bParts,      \* history: what each transform(d) returned, in call order
    bAll,        \* its list all_chunks
    vState,      \* validate_clean_bulk: "off" | "idle" | "running" | "returned"
    vDocs,       \* its argument docs (the metadata of a document is changed in place)
    vGiven,      \* history: docs as they were when validate_clean_bulk was called
    vPos,        \* position in docs of the document the for-loop takes next
    vCleaned,    \* its list `cleaned`
    vChecked,    \* history: what validate returned for each document taken so far
    kText,       \* the text a caller gives to clean_text
    kPrev,       \* history: the text given to the call of clean_text before
    kCalls,      \* history: how many times clean_text was applied to its own result
    rProgress,   \* ResearchAgent.progress: report id -> percent (-1 after a failure)
    rReports,    \* ResearchAgent.reports: report id -> Report
    rTasks,      \* the workflow task of each report started: [pc, step]
    rAnswer      \* history: the last query made and what it returned or raised

cacheVars  == <<useRedis, memCache, redisStore>>
googleVars == <<gState, gArgs, gTasks, gNext, gResults, gRet, gFetched, gPrior, gOrder>>
tavilyVars == <<tLegacy, tArgs, tTask, tLast, tSeen>>
extractVars == <<xTasks, xLast, xSeen, xOrder>>
ingestVars == <<iState, iInjected, iTavily, iDocs>>
cacheTaskVars == <<redisUp, cTasks, cWrote>>
bulkVars == <<bState, bDocs, bPos, bParts, bAll>>
chunkVars == <<dState, dDoc, dSentences, dPos, dCurrent, dTokens, dCarried, dChunks, dOut,
               dDepth, bulkVars>>
validVars == <<vState, vDocs, vGiven, vPos, vCleaned, vChecked, kText, kPrev, kCalls>>
reportVars == <<rProgress, rReports, rTasks, rAnswer>>
configVars == <<env, built>>
pipelineVars == <<googleVars, tavilyVars, extractVars, ingestVars, configVars>>
vars == <<entry, now, cacheVars, pipelineVars, cacheTaskVars, chunkVars, validVars,
          reportVars>>

-----------------------------------------------------------------------------
(* Bounds of the model *)

MaxResultsBound == 15   \* largest max_results tried
MaxLinks == 2           \* largest max_links / number of URLs tried
MaxTicks == 7           \* clock ticks per behaviour
TickSeconds == 3600     \* length of one clock tick
MaxCacheTicks == 2      \* clock ticks per behaviour of the direct Cache clients
MaxSegments == 3        \* Words tokens in a short text
MaxWords == 1           \* words in a Words token of a short text
MaxSpaces == 2          \* whitespace characters in a run of a short text
MaxRechunks == 1        \* times a chunk's text is given to transform again
MaxBulk == 2            \* documents given to transform_bulk
MaxRuns == 2            \* runs of equal characters in a raw text
MaxEscape == 2          \* times a character of a raw text is HTML-escaped
MaxCleans == 2          \* times clean_text is applied to its own result
MaxRaw == 3
MaxAttemptNumber == 6
MaxReports == 2             \* documents given to validate_clean_bulk

(* Program constants *)

PAGE_SIZE == 10           \* min(10, remaining)
GOOGLE_MAX_ATTEMPTS == 3  \* stop_after_attempt(3)
GOOGLE_CACHE_TTL == 3600  \* cache_ttl = 60 * 60
TAVILY_MAX_ATTEMPTS == 3  \* _retry(max_attempts=3)
TAVILY_SEARCH_TTL == 21600   \* ttl=6 * 60 * 60
EXTRACT_CACHE_TTL == 21600   \* cache_ttl = 60 * 60 * 6
MIN_TEXT_LENGTH == 100    \* DataValidatorCleaner.MIN_TEXT_LENGTH

Queries == {"q1", "q2"}

-----------------------------------------------------------------------------
(* Python values.  depth counts the JSON encodings applied to the payload:  *)
(* 0 is the object itself (None, an int, a str, a list or a dict), 1 its    *)
(* json.dumps string, 2 the json.dumps of that string.                      *)

PyNone == [type |-> "none", depth |-> 0, empty |-> TRUE, body |-> <<>>]
PyList(seq) == [type |-> "list", depth |-> 0, empty |-> (Len(seq) = 0), body |-> seq]
PyInt(n) == [type |-> "int", depth |-> 0, empty |-> (n = 0), body |-> <<n>>]
PyEmptyStr == [type |-> "str", depth |-> 0, empty |-> TRUE, body |-> <<>>]
IsNone(v) == v.type = "none" /\ v.depth = 0
\* v is the text json.dumps produced
IsStr(v) == v.depth >= 1

\* dict.setdefault(key, value)
setdefault(dict, key, value) ==
    IF key \in DOMAIN dict THEN dict ELSE dict @@ (key :> value)

\* bool(v): None, 0, "", the empty list and the empty dict are falsy; the
\* text json.dumps produces is never the empty string.
Truthy(v) == IsStr(v) \/ (v.depth = 0 /\ ~v.empty)

json_dumps(v) == [v EXCEPT !.depth = v.depth + 1, !.empty = FALSE]
\* json.loads raises TypeError on anything that is not a string.
json_loads_ok(s) == IsStr(s)
json_loads(s) == [s EXCEPT !.depth = s.depth - 1,
                           !.empty = IF s.depth > 1 THEN FALSE
                                     ELSE CASE s.type = "none" -> TRUE
                                            [] s.type = "int"  -> s.body[1] = 0
                                            [] OTHER           -> DOMAIN s.body = {}]

-----------------------------------------------------------------------------
(* Cache (cache.py) *)

\* The reply of the shared store to GET key: the stored text, None when the
\* key is absent or its entry has expired.
RedisGet(key) ==
    IF key \in DOMAIN redisStore /\ now < redisStore[key].expiry
    THEN redisStore[key].value ELSE PyNone

\* (mutation: the decoded value is tested, not the reply)
redis_hit_decoded(value) == ~IsNone(value) /\ Truthy(json_loads(value))
\* json.loads(value) if value else None
redis_hit(value) == Truthy(value)

\* Cache.get
CacheGet(key) ==
    IF useRedis
    THEN IF redis_hit(RedisGet(key)) THEN json_loads(RedisGet(key)) ELSE PyNone
    ELSE IF key \in DOMAIN memCache THEN memCache[key] ELSE PyNone

\* (mutation: the write replaces the value of every key)
CacheSet_every_key(key, value, ttl) ==
    IF useRedis
    THEN /\ redisStore' = [k \in DOMAIN redisStore \cup {key} |->
                              [value |-> json_dumps(value), expiry |-> now + ttl]]
         /\ UNCHANGED memCache
    ELSE /\ memCache' = [k \in DOMAIN memCache \cup {key} |-> value]
         /\ UNCHANGED redisStore
\* Cache.set(key, value, ttl): the effect on the store
CacheSet(key, value, ttl) ==
    IF useRedis
    THEN /\ redisStore' = (key :> [value |-> json_dumps(value), expiry |-> now + ttl])
                            @@ redisStore
         /\ UNCHANGED memCache
    ELSE /\ memCache' = (key :> value) @@ memCache
         /\ UNCHANGED redisStore

\* The parameters of Cache.set that a caller may pass by keyword.
CacheSetKeywords == {"key", "value", "ttl"}
\* A call set(key, value, <kw>=...) binds iff kw names a parameter;
\* otherwise Python raises TypeError before the body runs.
CacheSetBinds(kw) == kw \in CacheSetKeywords

-----------------------------------------------------------------------------
(* GoogleSearchClient (google_search_client.py) *)

\* _make_cache_key: sha256 of "|".join(map(str, parts)), taken as injective
\* on the joined string; str(None) is "None".
make_cache_key(query, start, num, safe, lang) ==
    [ns |-> "google_cse", q |-> query, a |-> start, b |-> num, s |-> safe, l |-> lang]

\* The keyword _search_page passes the TTL under.
GoogleCacheWriteKw == "ex"

\* retry_if_exception_type((httpx.HTTPError, GoogleSearchError))
GoogleRetryOn == {"HTTPError", "GoogleSearchError"}
\* (mutation: retry whatever the exception)
google_retry_if_any(err) == TRUE
google_retry_if(err) == err \in GoogleRetryOn

\* Delays are in milliseconds.
\* wait_exponential(multiplier=1, min=2, max=10)
WAIT_MULTIPLIER == 1000
WAIT_MIN == 2000
WAIT_MAX == 10000
\* (mutation: no lower limit)
wait_exponential_no_min(attempt_number) ==
    LET result == WAIT_MULTIPLIER * 2 ^ (attempt_number - 1)
    IN IF result < WAIT_MAX THEN result ELSE WAIT_MAX
\* wait_exponential.__call__ (tenacity): multiplier * exp_base ** (n - 1),
\* brought into [min, max]; exp_base is 2
wait_exponential(attempt_number) ==
    LET result == WAIT_MULTIPLIER * 2 ^ (attempt_number - 1)
        upper == IF result < WAIT_MAX THEN result ELSE WAIT_MAX
        lower == IF 0 > WAIT_MIN THEN 0 ELSE WAIT_MIN
    IN IF lower > upper THEN lower ELSE upper

\* A task that has not finished is run by the event loop, whether or not
\* another task sleeps (await asyncio.sleep suspends the sleeping task only).
\* (mutation: a sleep that holds the loop; nothing else runs meanwhile)
runnable_unless_sleeping(tasks, i) ==
    /\ tasks[i].pc \in {"pending", "backoff"}
    /\ \A j \in DOMAIN tasks : j # i => tasks[j].pc # "backoff"
runnable(tasks, i) == tasks[i].pc \in {"pending", "backoff"}

\* (mutation: off by one)
google_stop_late(attempt_number) == attempt_number > GOOGLE_MAX_ATTEMPTS
\* stop_after_attempt(3)
google_stop(attempt_number) == attempt_number >= GOOGLE_MAX_ATTEMPTS

\* The while loop of search: the (start, num) of the page tasks it creates.
RECURSIVE PagePlan(_, _)
\* (mutation: every page asks for a full page)
batch_size_full_page(remaining) == PAGE_SIZE
\* batch_size = min(10, remaining)
batch_size(remaining) == IF remaining < PAGE_SIZE THEN remaining ELSE PAGE_SIZE
PagePlan(remaining, current_start) ==
    IF remaining > 0
    THEN <<[start |-> current_start, num |-> batch_size(remaining)]>>
           \o PagePlan(remaining - batch_size(remaining),
                       current_start + batch_size(remaining))
    ELSE <<>>

NewPageTask(p) ==
    [start |-> p.start, num |-> p.num, pc |-> "pending", attempts |-> 0,
     errs |-> <<>>, err |-> "", results |-> <<>>, http |-> 0, ok |-> FALSE,
     slept |-> <<>>]

\* What the provider may answer to one page request.  An "ok" answer holds
\* `count` items numbered from start; the first `nolink` of them lack a link.
GoogleResponses(start, num) ==
    {[kind |-> "transport", count |-> 0, nolink |-> 0],
     [kind |-> "status500", count |-> 0, nolink |-> 0],
     [kind |-> "badjson", count |-> 0, nolink |-> 0]}
    \cup {[kind |-> "ok", count |-> c, nolink |-> 0] : c \in {0, num, PAGE_SIZE}}
    \cup {[kind |-> "ok", count |-> num, nolink |-> 1]}

\* results = [... for item in items if item.get("link")]
PageResults(start, resp) ==
    [i \in 1..(resp.count - resp.nolink) |-> start + resp.nolink + i - 1]

\* The dict _search_page builds for the item numbered `item` that has a link.
search_result(item) ==
    [url |-> item, title |-> "title " \o ToString(item),
     description |-> "snippet " \o ToString(item), source |-> "google_cse"]

\* The exception one attempt raises before it has results ("" when none).
GoogleAttemptError(resp) ==
    CASE resp.kind = "transport" -> "HTTPError"
      [] resp.kind = "status500" -> "GoogleSearchError"
      [] resp.kind = "badjson"   -> "ValueError"
      [] OTHER                   -> ""

\* search(query, max_results): up to the first await of the for-loop.
GoogleSearchBegin(query, max_results) ==
    /\ gNext' = 1
    /\ gResults' = <<>>
    /\ gRet' = <<>>
    /\ gPrior' = gFetched
    /\ gOrder' = <<>>
    /\ UNCHANGED <<gArgs, gFetched>>
    /\ IF max_results <= 0
       THEN gState' = "returned" /\ gTasks' = <<>>
       ELSE /\ gState' = "running"
            /\ gTasks' = [i \in 1..Len(PagePlan(max_results, 1)) |->
                            NewPageTask(PagePlan(max_results, 1)[i])]

GoogleSearchCall ==
    /\ entry = "google"
    /\ built = "yes"
    /\ gState \in {"idle", "returned"}
    /\ GoogleSearchBegin(gArgs.query, gArgs.max_results)
    /\ UNCHANGED <<cacheTaskVars, chunkVars, validVars, reportVars, configVars>>
    /\ UNCHANGED <<entry, now, cacheVars, tavilyVars, extractVars, ingestVars>>

\* _search_page, one step of task i: the cache lookup when the task first
\* runs, then one attempt of the retrying block (or the wake-up from the
\* back-off sleep followed by the next attempt).
SearchPageStep(i) ==
    LET t == gTasks[i]
        key == make_cache_key(gArgs.query, t.start, t.num, "off", "None")
        cached == CacheGet(key)
    IN
    /\ gState = "running"
    /\ runnable(gTasks, i)
    /\ IF t.pc = "pending" /\ Truthy(cached)
       THEN \* cache hit: return json.loads(cached)
            /\ gTasks' = [gTasks EXCEPT ![i] =
                   IF json_loads_ok(cached)
                   THEN [t EXCEPT !.pc = "done", !.results = json_loads(cached).body]
                   ELSE [t EXCEPT !.pc = "raised", !.err = "TypeError"]]
            /\ UNCHANGED <<cacheVars, gFetched>>
       ELSE \E resp \in GoogleResponses(t.start, t.num) :
            LET early == GoogleAttemptError(resp)
                results == PageResults(t.start, resp)
                \* the exception this attempt ends with, "" when it returns
                exc == IF early # "" THEN early
                       ELSE IF CacheSetBinds(GoogleCacheWriteKw) THEN "" ELSE "TypeError"
                n == t.attempts + 1
                t1 == [t EXCEPT !.attempts = n, !.http = t.http + 1,
                                !.ok = (early = ""),
                                !.results = IF early = "" THEN results ELSE <<>>]
            IN
            /\ IF early = "" /\ CacheSetBinds(GoogleCacheWriteKw)
               THEN CacheSet(key, json_dumps(PyList(results)), GOOGLE_CACHE_TTL)
               ELSE UNCHANGED cacheVars
            /\ gFetched' = IF early = "" /\ entry = "google"
                           THEN (key :> now) @@ gFetched ELSE gFetched
            /\ gTasks' = [gTasks EXCEPT ![i] =
                   IF exc = ""
                   THEN [t1 EXCEPT !.pc = "done"]
                   ELSE IF google_retry_if(exc) /\ ~google_stop(n)
                        THEN [t1 EXCEPT !.pc = "backoff", !.errs = Append(t.errs, exc),
                                        !.slept = Append(t.slept, wait_exponential(n))]
                        ELSE \* reraise=True: the last attempt's exception
                             [t1 EXCEPT !.pc = "raised", !.err = exc,
                                        !.errs = Append(t.errs, exc)]]
    /\ gOrder' = IF gTasks'[i].pc \in {"done", "raised"} THEN Append(gOrder, i) ELSE gOrder
    /\ UNCHANGED <<cacheTaskVars, chunkVars, validVars, reportVars, configVars>>
    /\ UNCHANGED <<entry, now, useRedis, gState, gArgs, gNext, gResults, gRet, gPrior,
                   tavilyVars, extractVars, ingestVars>>

SearchPage == \E i \in 1..Len(gTasks) : SearchPageStep(i)

\* (mutation: the page is put in front of what was collected)
extend_front(results, page) == page \o results
\* results.extend(await task)
extend(results, page) == results \o page

\* (mutation: no slice)
Truncate_none(seq, n) == seq
\* results[:max_results]
Truncate(seq, n) == IF Len(seq) <= n THEN seq ELSE SubSeq(seq, 1, n)

\* (mutation: only the retryable kinds are caught)
google_search_catches_transient(err) == err \in GoogleRetryOn
\* except Exception around `await task`
google_search_catches(err) == TRUE

\* The for-loop of search resumes when the task it awaits has finished;
\* after the last task, search returns.
GoogleSearchAwait ==
    /\ gState = "running"
    /\ gNext <= Len(gTasks)
    /\ gTasks[gNext].pc \in {"done", "raised"}
    /\ LET t == gTasks[gNext]
           res == IF t.pc = "done" THEN extend(gResults, t.results) ELSE gResults
       IN
       IF t.pc = "raised" /\ ~google_search_catches(t.err)
       THEN gState' = "raised" /\ UNCHANGED <<gResults, gNext, gRet>>
       ELSE /\ gResults' = res
            /\ gNext' = gNext + 1
            /\ IF gNext = Len(gTasks)
               THEN gState' = "returned" /\ gRet' = Truncate(res, gArgs.max_results)
               ELSE UNCHANGED <<gState, gRet>>
    /\ UNCHANGED <<cacheTaskVars, chunkVars, validVars, reportVars, configVars>>
    /\ UNCHANGED <<entry, now, cacheVars, gArgs, gTasks, gFetched, gPrior, gOrder,
                   tavilyVars, extractVars, ingestVars>>


-----------------------------------------------------------------------------
(* _retry (tavily_client.py): the wrapper around search and extract *)

\* except Exception: every exception kind is caught
tavily_retry_catches(err) == TRUE

\* (mutation: off by one)
tavily_give_up_late(attempt) == attempt > TAVILY_MAX_ATTEMPTS
\* if attempt >= max_attempts: raise
tavily_give_up(attempt) == attempt >= TAVILY_MAX_ATTEMPTS

\* base_delay: float = 0.5, in milliseconds
BASE_DELAY == 500
\* sleep_for = base_delay * 2 ** (attempt - 1)
sleep_for(attempt) == BASE_DELAY * 2 ^ (attempt - 1)

\* The task after one invocation of the wrapped operation ended with the
\* exception exc ("" when it returned ret).
RetryOutcome(t, exc, ret) ==
    LET t1 == [t EXCEPT !.invoked = t.invoked + 1] IN
    IF exc = ""
    THEN [t1 EXCEPT !.pc = "done", !.ret = ret]
    ELSE IF tavily_retry_catches(exc) /\ ~tavily_give_up(t.attempt + 1)
         THEN [t1 EXCEPT !.pc = "backoff", !.attempt = t.attempt + 1,
                         !.errs = Append(t.errs, exc),
                         !.slept = Append(t.slept, sleep_for(t.attempt + 1))]
         ELSE \* a bare `raise`: the exception being handled
              [t1 EXCEPT !.pc = "raised", !.attempt = t.attempt + 1,
                         !.errs = Append(t.errs, exc), !.err = exc]

-----------------------------------------------------------------------------
(* TavilyClient.search (tavily_client.py) *)

Freshness == {"None", "month"}

\* _cache_key("search", params): None values are dropped, then sha256 of the
\* sorted JSON, taken as injective.
tavily_cache_key(endpoint, params) ==
    [ns |-> "tavily", q |-> params.query, a |-> params.max_results, b |-> 0,
     s |-> IF params.freshness = "None" THEN "" ELSE "freshness=" \o params.freshness,
     l |-> endpoint]

\* The keyword search passes the TTL under.
TavilySearchCacheWriteKw == "ttl"

\* (mutation: the truthiness test the other lookups use)
tavily_search_hit_truthy(cached) == Truthy(cached)
\* if cached is not None
tavily_search_hit(cached) == ~IsNone(cached)

\* What the provider may answer to one search request.
TavilyResultLists == {<<>>, <<1>>, <<2, 1>>}
TavilyResponses ==
    {[kind |-> "error", results |-> <<>>], [kind |-> "badformat", results |-> <<>>]}
    \cup {[kind |-> "results", results |-> r] : r \in TavilyResultLists}

\* The exception a response leads to before the cache write ("" when none).
\* Legacy path: `data.get("results") or data` of an empty result list is the
\* response dict itself, which is not a list.
TavilySearchError(resp) ==
    CASE resp.kind = "error"     -> "HTTPError"
      [] resp.kind = "badformat" -> "ValueError"
      [] OTHER -> IF tLegacy /\ Len(resp.results) = 0 THEN "ValueError" ELSE ""

NewRetryTask(url) ==
    [url |-> url, pc |-> "pending", attempt |-> 0, invoked |-> 0, errs |-> <<>>,
     err |-> "", ret |-> PyNone, prov |-> 0, got |-> PyNone, slept |-> <<>>]

TavilySearchCall ==
    /\ entry = "tavily_search"
    /\ built = "yes"
    /\ tTask.pc \in {"idle", "done", "raised"}
    /\ tTask' = NewRetryTask(0)
    /\ tSeen' = tLast
    /\ UNCHANGED <<cacheTaskVars, chunkVars, validVars, reportVars, configVars>>
    /\ UNCHANGED <<entry, now, cacheVars, googleVars, tLegacy, tArgs, tLast,
                   extractVars, ingestVars>>

\* One invocation of search by the wrapper (after the back-off sleep, when
\* it is a retry).
TavilySearchStep ==
    LET t == tTask
        key == tavily_cache_key("search", tArgs)
        cached == CacheGet(key)
    IN
    /\ t.pc \in {"pending", "backoff"}
    /\ IF tavily_search_hit(cached)
       THEN /\ tTask' = RetryOutcome(t, "", cached)
            /\ UNCHANGED <<cacheVars, tLast>>
       ELSE \E resp \in TavilyResponses :
            LET early == TavilySearchError(resp)
                results == PyList(resp.results)
                exc == IF early # "" THEN early
                       ELSE IF CacheSetBinds(TavilySearchCacheWriteKw) THEN "" ELSE "TypeError"
                t1 == [t EXCEPT !.prov = t.prov + 1,
                                !.got = IF early = "" THEN results ELSE PyNone]
            IN
            /\ IF early = "" /\ CacheSetBinds(TavilySearchCacheWriteKw)
               THEN CacheSet(key, results, TAVILY_SEARCH_TTL)
               ELSE UNCHANGED cacheVars
            /\ tLast' = IF exc = "" THEN [has |-> TRUE, result |-> results, at |-> now]
                        ELSE tLast
            /\ tTask' = RetryOutcome(t1, exc, results)
    /\ UNCHANGED <<cacheTaskVars, chunkVars, validVars, reportVars, configVars>>
    /\ UNCHANGED <<entry, now, useRedis, googleVars, tLegacy, tArgs, tSeen,
                   extractVars, ingestVars>>

-----------------------------------------------------------------------------
(* TavilyClient.extract (tavily_client.py) *)

\* f"tavily:extract:{sha1(url)}:{text_format}", sha1 taken as injective
extract_cache_key(url, text_format) ==
    [ns |-> "tavily:extract", q |-> "", a |-> url, b |-> 0, s |-> text_format, l |-> ""]

\* The keyword extract passes the TTL under.
ExtractCacheWriteKw == "ex"

\* The page texts the provider may deliver.
TextOf(tag) ==
    CASE tag = "good"  -> [i \in 1..(MIN_TEXT_LENGTH + 20) |-> "a"]
      [] tag = "short" -> [i \in 1..(MIN_TEXT_LENGTH - 1) |-> "a"]
      [] tag = "blank" -> [i \in 1..(MIN_TEXT_LENGTH + 20) |-> " "]
      [] OTHER         -> <<>>

PyDict(rec) == [type |-> "dict", depth |-> 0, empty |-> FALSE, body |-> rec]

\* What the provider may answer to one extract request: a content dict
\* {text, title} (title "" stands for a missing title) or an exception.
ExtractContents ==
    {[text |-> "good", title |-> "T"], [text |-> "short", title |-> ""],
     [text |-> "blank", title |-> "T"], [text |-> "empty", title |-> "T"]}
ExtractResponses ==
    {[kind |-> "error", content |-> [text |-> "empty", title |-> ""]]}
    \cup {[kind |-> "content", content |-> c] : c \in ExtractContents}

\* One invocation of extract for task i by the wrapper (after the back-off
\* sleep, when it is a retry).
ExtractStep(i) ==
    LET t == xTasks[i]
        key == extract_cache_key(t.url, "text")
        cached == CacheGet(key)
    IN
    /\ runnable(xTasks, i)
    /\ IF iTavily
       THEN \* self.tavily is the injected object: its extract answers or raises
            /\ \E resp \in ExtractResponses :
                 xTasks' = [xTasks EXCEPT ![i] =
                     IF resp.kind = "error"
                     THEN [t EXCEPT !.pc = "raised", !.err = "HTTPError",
                                    !.errs = <<"HTTPError">>, !.invoked = 1]
                     ELSE [t EXCEPT !.pc = "done", !.invoked = 1,
                                    !.ret = PyDict(resp.content),
                                    !.got = PyDict(resp.content)]]
            /\ UNCHANGED <<cacheVars, xLast>>
       ELSE IF Truthy(cached)
       THEN \* return json.loads(cached)
            /\ xTasks' = [xTasks EXCEPT ![i] =
                   IF json_loads_ok(cached)
                   THEN RetryOutcome(t, "", json_loads(cached))
                   ELSE RetryOutcome(t, "TypeError", PyNone)]
            /\ UNCHANGED <<cacheVars, xLast>>
       ELSE \E resp \in ExtractResponses :
            LET early == IF resp.kind = "error" THEN "HTTPError" ELSE ""
                content == PyDict(resp.content)
                exc == IF early # "" THEN early
                       ELSE IF CacheSetBinds(ExtractCacheWriteKw) THEN "" ELSE "TypeError"
                t1 == [t EXCEPT !.prov = t.prov + 1,
                                !.got = IF early = "" THEN content ELSE PyNone]
            IN
            /\ IF early = "" /\ CacheSetBinds(ExtractCacheWriteKw)
               THEN CacheSet(key, json_dumps(content), EXTRACT_CACHE_TTL)
               ELSE UNCHANGED cacheVars
            /\ xLast' = IF early = "" /\ entry = "tavily_extract"
                        THEN [has |-> TRUE, result |-> content, at |-> now]
                        ELSE xLast
            /\ xTasks' = [xTasks EXCEPT ![i] = RetryOutcome(t1, exc, content)]
    /\ xOrder' = IF xTasks'[i].pc \in {"done", "raised"} THEN Append(xOrder, i) ELSE xOrder
    /\ UNCHANGED <<cacheTaskVars, chunkVars, validVars, reportVars, configVars>>
    /\ UNCHANGED <<entry, now, useRedis, googleVars, tavilyVars, xSeen, ingestVars>>

Extract == \E i \in 1..Len(xTasks) : ExtractStep(i)

ExtractsFinished == \A i \in 1..Len(xTasks) : xTasks[i].pc \in {"done", "raised"}

\* A client calls extract(url) directly.
TavilyExtractCall ==
    /\ entry = "tavily_extract"
    /\ built = "yes"
    /\ ExtractsFinished
    /\ xTasks' = <<NewRetryTask(1)>>
    /\ xSeen' = xLast
    /\ xOrder' = <<>>
    /\ UNCHANGED <<cacheTaskVars, chunkVars, validVars, reportVars, configVars>>
    /\ UNCHANGED <<entry, now, cacheVars, googleVars, tavilyVars, xLast, ingestVars>>

-----------------------------------------------------------------------------
(* Validation (data_validation.py) *)

SUPPORTED_FORMATS == {"html", "markdown", "plaintext", "pdf", "csv", "json", "xml", "docx"}

IsSpace(c) == c \in {" ", "\n", "\t"}
\* (mutation: a text of whitespace only does not count as empty)
StripsToEmpty_never(text) == FALSE
\* not text.strip()
StripsToEmpty(text) == \A i \in 1..Len(text) : IsSpace(text[i])

\* (mutation: validate stops at the first check that fails)
validate_first_error(doc) ==
    IF Len(doc.text) = 0 \/ StripsToEmpty(doc.text) THEN <<"Empty text content">>
    ELSE IF Len(doc.text) < MIN_TEXT_LENGTH
         THEN <<"Text too short (<100 chars): " \o ToString(Len(doc.text))>>
    ELSE IF doc.raw_format \notin SUPPORTED_FORMATS
         THEN <<"Unsupported format: " \o doc.raw_format>>
    ELSE IF doc.title = "" THEN <<"Missing title">>
    ELSE <<>>
\* DataValidatorCleaner.validate: the error list, in the order of the checks
validate(doc) ==
    (IF Len(doc.text) = 0 \/ StripsToEmpty(doc.text)
        THEN <<"Empty text content">> ELSE <<>>)
    \o (IF Len(doc.text) < MIN_TEXT_LENGTH
        THEN <<"Text too short (<100 chars): " \o ToString(Len(doc.text))>> ELSE <<>>)
    \o (IF doc.raw_format \notin SUPPORTED_FORMATS
        THEN <<"Unsupported format: " \o doc.raw_format>> ELSE <<>>)
    \o (IF doc.title = "" THEN <<"Missing title">> ELSE <<>>)

is_valid(doc) == Len(validate(doc)) = 0

\* validate_clean_bulk: the documents that validate_and_clean does not
\* drop, in input order (their cleaned_text is not carried here).
RECURSIVE validate_clean_bulk(_)
validate_clean_bulk(docs) ==
    IF Len(docs) = 0 THEN <<>>
    ELSE (IF is_valid(Head(docs)) THEN <<Head(docs)>> ELSE <<>>)
         \o validate_clean_bulk(Tail(docs))

-----------------------------------------------------------------------------
(* IngestionService (ingestion.py) *)

\* The title of search result i, "" when the provider item has none.
ResultTitle(i) == IF i % 2 = 0 THEN "R" ELSE ""

\* except Exception in _fetch_and_parse
fetch_catches(err) == TRUE

\* _fetch_and_parse lets the exception of its extract escape
fetch_raises(t) == t.pc = "raised" /\ ~fetch_catches(t.err)

\* asyncio.gather(*tasks, return_exceptions=True)
gather_return_exceptions == TRUE

\* _fetch_and_parse for a finished extract task: <<doc>> when it returns a
\* RawDocument, <<>> when it returns None.
fetch_and_parse(t) ==
    IF t.pc = "raised" \/ Len(TextOf(t.ret.body.text)) = 0
    THEN <<>>
    ELSE <<[id |-> t.url,
            title |-> IF t.ret.body.title # "" THEN t.ret.body.title
                      ELSE IF ResultTitle(t.url) # "" THEN ResultTitle(t.url)
                      ELSE ToString(t.url),
            raw_format |-> "html",
            text |-> TextOf(t.ret.body.text),
            url |-> t.url,
            metadata |-> [source |-> "google_cse+tavily"]]>>

\* ingest_topic up to `await self.google.search(...)`.  An injected search
\* double returns any list of at most max_links URLs.
IngestTopicCall ==
    /\ entry = "ingest"
    /\ built = "yes"
    /\ iState \in {"idle", "returned"}
    /\ iState' = "searching"
    /\ iDocs' = <<>>
    /\ xTasks' = <<>>
    /\ xOrder' = <<>>
    /\ IF iInjected
       THEN /\ \E n \in 0..gArgs.max_results :
                 gRet' = [k \in 1..n |-> k]
            /\ gState' = "returned"
            /\ UNCHANGED <<gArgs, gTasks, gNext, gResults, gFetched, gPrior, gOrder>>
       ELSE GoogleSearchBegin(gArgs.query, gArgs.max_results)
    /\ UNCHANGED <<cacheTaskVars, chunkVars, validVars, reportVars, configVars>>
    /\ UNCHANGED <<entry, now, cacheVars, tavilyVars, xLast, xSeen, iInjected, iTavily>>

\* search has returned: the extract tasks are created and gathered.
IngestFanOut ==
    /\ iState = "searching"
    /\ gState \in {"returned", "raised"}
    /\ IF gState = "raised"
       THEN iState' = "raised" /\ UNCHANGED xTasks
       ELSE /\ iState' = "fetching"
            /\ xTasks' = [k \in 1..Len(gRet) |-> NewRetryTask(gRet[k])]
    /\ UNCHANGED <<cacheTaskVars, chunkVars, validVars, reportVars, configVars>>
    /\ UNCHANGED <<entry, now, cacheVars, googleVars, tavilyVars, xLast, xSeen, xOrder,
                   iInjected, iTavily, iDocs>>

\* gather(..., return_exceptions=True) hands back one entry per task, in
\* task order; the RawDocuments among them are validated and returned.
\* (mutation: the entries are taken in the order the tasks completed)
RECURSIVE by_completion(_, _)
by_completion(tasks, order) ==
    IF Len(order) = 0 THEN <<>>
    ELSE fetch_and_parse(tasks[Head(order)]) \o by_completion(tasks, Tail(order))
raw_docs_by_completion(tasks) == by_completion(tasks, xOrder)
RECURSIVE raw_docs(_)
raw_docs(tasks) ==
    IF Len(tasks) = 0 THEN <<>>
    ELSE fetch_and_parse(Head(tasks)) \o raw_docs(Tail(tasks))

IngestGather ==
    /\ iState = "fetching"
    /\ ExtractsFinished
    /\ IF ~gather_return_exceptions /\ \E i \in 1..Len(xTasks) : fetch_raises(xTasks[i])
       THEN iState' = "raised" /\ UNCHANGED iDocs
       ELSE iState' = "returned" /\ iDocs' = validate_clean_bulk(raw_docs(xTasks))
    /\ UNCHANGED <<cacheTaskVars, chunkVars, validVars, reportVars, configVars>>
    /\ UNCHANGED <<entry, now, cacheVars, googleVars, tavilyVars, extractVars,
                   iInjected, iTavily>>

-----------------------------------------------------------------------------
(* The clock.  Calls last seconds, cache entries live for hours: the clock  *)
(* is advanced between calls, and only while the shared store holds an      *)
(* entry that has not expired (time is not observable otherwise).           *)

Idle ==
    /\ gState # "running"
    /\ tTask.pc \in {"idle", "done", "raised"}
    /\ ExtractsFinished
    /\ iState \notin {"searching", "fetching"}

Tick ==
    /\ Idle
    /\ useRedis /\ \E k \in DOMAIN redisStore : now < redisStore[k].expiry
    /\ now < MaxTicks * TickSeconds
    /\ now' = now + TickSeconds
    /\ UNCHANGED <<cacheTaskVars, chunkVars, validVars, reportVars, configVars>>
    /\ UNCHANGED <<entry, cacheVars, googleVars, tavilyVars, extractVars, ingestVars>>

-----------------------------------------------------------------------------
(* Cache used directly (cache.py): client tasks that call get and set.      *)
(* Under the local fallback a call has no suspension point and runs in one  *)
(* step; under the shared store a call suspends at `await self._redis...`   *)
(* and the store serves the commands it received one at a time.             *)

CacheTaskIds == {1, 2}
CacheKey(name) == [ns |-> "client", q |-> name, a |-> 0, b |-> 0, s |-> "", l |-> ""]
CacheKeys == {CacheKey("k1"), CacheKey("k2")}
\* The values written: three falsy ones (0, "", []) and a truthy one.
CacheValues == {PyInt(0), PyEmptyStr, PyList(<<>>), PyList(<<1>>)}
CacheTtls == {TickSeconds, 2 * TickSeconds}

\* aioredis.from_url builds the client object and opens no connection: it
\* does not raise when the server is unreachable.
from_url_raises(reachable) == FALSE

NoWrite == [has |-> FALSE, value |-> PyNone]
NewCacheTask ==
    [op |-> "none", key |-> CacheKey("k1"), value |-> PyNone, ttl |-> 0,
     pc |-> "idle", ret |-> PyNone, err |-> "", saw |-> NoWrite, fresh |-> FALSE]

\* The calls a task may make: any value and ttl go to the first key, the
\* second key is given one value that is never written to the first.
CacheCalls ==
    [op : {"get"}, key : CacheKeys, value : {PyNone}, ttl : {0}]
    \cup [op : {"set"}, key : {CacheKey("k1")}, value : CacheValues, ttl : CacheTtls]
    \cup [op : {"set"}, key : {CacheKey("k2")}, value : {PyList(<<2>>)},
          ttl : {2 * TickSeconds}]

\* The body of get / set run by task i for the call c; the task records
\* what get returned together with the last completed set of its key.
CacheRun(i, c) ==
    IF c.op = "get"
    THEN /\ cTasks' = [cTasks EXCEPT ![i] =
                [NewCacheTask EXCEPT
                    !.op = "get", !.key = c.key, !.pc = "done",
                    !.ret = CacheGet(c.key),
                    !.saw = IF c.key \in DOMAIN cWrote
                            THEN [has |-> TRUE, value |-> cWrote[c.key].value]
                            ELSE NoWrite,
                    !.fresh = (c.key \in DOMAIN cWrote /\ cWrote[c.key].fresh)]]
         /\ UNCHANGED <<memCache, redisStore, cWrote>>
    ELSE /\ CacheSet(c.key, c.value, c.ttl)
         /\ cWrote' = (c.key :> [value |-> c.value, fresh |-> TRUE]) @@ cWrote
         /\ cTasks' = [cTasks EXCEPT ![i] = [NewCacheTask EXCEPT !.op = "set", !.pc = "done"]]

\* Local fallback: the whole call.
CacheLocalCall(i) ==
    /\ ~useRedis
    /\ cTasks[i].pc # "pending"
    /\ \E c \in CacheCalls : CacheRun(i, c)
    /\ UNCHANGED <<entry, now, useRedis, redisUp, pipelineVars, chunkVars, validVars, reportVars>>

\* Shared store: the call up to its await.
CacheRedisSend(i) ==
    /\ useRedis
    /\ cTasks[i].pc # "pending"
    /\ \E c \in CacheCalls :
         cTasks' = [cTasks EXCEPT ![i] =
             [NewCacheTask EXCEPT !.op = c.op, !.key = c.key, !.value = c.value,
                                  !.ttl = c.ttl, !.pc = "pending"]]
    /\ UNCHANGED <<entry, now, cacheVars, redisUp, cWrote, pipelineVars, chunkVars, validVars, reportVars>>

\* Shared store: the command is served and the call resumes, or the
\* connection attempt fails and the await raises.
CacheRedisReply(i) ==
    /\ useRedis
    /\ cTasks[i].pc = "pending"
    /\ IF redisUp
       THEN CacheRun(i, cTasks[i])
       ELSE /\ cTasks' = [cTasks EXCEPT ![i].pc = "raised", ![i].err = "ConnectionError"]
            /\ UNCHANGED <<memCache, redisStore, cWrote>>
    /\ UNCHANGED <<entry, now, useRedis, redisUp, pipelineVars, chunkVars, validVars, reportVars>>

\* Time passes between calls, once something was written.
CacheTick ==
    /\ \A i \in CacheTaskIds : cTasks[i].pc # "pending"
    /\ DOMAIN cWrote # {}
    /\ now < MaxCacheTicks * TickSeconds
    /\ now' = now + TickSeconds
    /\ cWrote' = [k \in DOMAIN cWrote |-> [cWrote[k] EXCEPT !.fresh = FALSE]]
    /\ UNCHANGED <<entry, cacheVars, redisUp, cTasks, pipelineVars, chunkVars, validVars, reportVars>>

CacheLocal == \E i \in CacheTaskIds : CacheLocalCall(i)
CacheSend == \E i \in CacheTaskIds : CacheRedisSend(i)
CacheReply == \E i \in CacheTaskIds : CacheRedisReply(i)

-----------------------------------------------------------------------------
(* DocumentTransformer (data_transformation.py)                             *)
(*                                                                          *)
(* A text is a sequence of tokens: Words(n, term) stands for n words with   *)
(* one space between them, the last of which ends with ".", "!" or "?" iff  *)
(* term; Space(n) stands for a run of n whitespace characters.  Words and   *)
(* Space tokens alternate.                                                  *)

MAX_TOKENS == 512        \* MAX_TOKENS = 512
OVERLAP_SENTENCES == 3   \* current_chunk[-3:]

Words(n, term) == [kind |-> "words", n |-> n, term |-> term]
Space(n) == [kind |-> "space", n |-> n, term |-> FALSE]

\* len(text.split()), summed over the two halves of the text
RECURSIVE WordCount(_)
WordCount(text) ==
    IF Len(text) = 0 THEN 0
    ELSE IF Len(text) = 1 THEN (IF text[1].kind = "words" THEN text[1].n ELSE 0)
    ELSE WordCount(SubSeq(text, 1, Len(text) \div 2))
         + WordCount(SubSeq(text, Len(text) \div 2 + 1, Len(text)))

\* _approx_tokens: math.ceil(len(words) * 0.75)
approx_tokens(text) == (3 * WordCount(text) + 3) \div 4

\* str.strip()
RECURSIVE lstrip(_)
lstrip(text) ==
    IF Len(text) > 0 /\ Head(text).kind = "space" THEN lstrip(Tail(text)) ELSE text
RECURSIVE rstrip(_)
rstrip(text) ==
    IF Len(text) > 0 /\ text[Len(text)].kind = "space"
    THEN rstrip(SubSeq(text, 1, Len(text) - 1)) ELSE text
strip(text) == rstrip(lstrip(text))

\* _normalise: re.sub(r"\s+", " ", text).strip()
normalise(text) ==
    strip([i \in 1..Len(text) |-> IF text[i].kind = "space" THEN Space(1) ELSE text[i]])

\* (?<=[.!?])\s+ matches at i: a whitespace run that follows ".", "!" or "?"
sentence_end(text, i) ==
    /\ text[i].kind = "space"
    /\ i > 1
    /\ text[i - 1].kind = "words" /\ text[i - 1].term

\* SENTENCE_END_RE.split(text), for the part lo..hi of the text: the pieces
\* between the matches (k matches give k + 1 pieces, some possibly empty);
\* the pieces of the two halves are put together, the last piece of the
\* first half continuing into the first piece of the second.
RECURSIVE re_split(_, _, _)
re_split(text, lo, hi) ==
    IF lo > hi THEN << <<>> >>
    ELSE IF lo = hi
         THEN IF sentence_end(text, lo) THEN << <<>>, <<>> >> ELSE << <<text[lo]>> >>
    ELSE LET mid == (lo + hi) \div 2
             L == re_split(text, lo, mid)
             R == re_split(text, mid + 1, hi)
         IN SubSeq(L, 1, Len(L) - 1) \o << L[Len(L)] \o R[1] >> \o SubSeq(R, 2, Len(R))

NonEmpty(piece) == Len(piece) > 0
\* _split_into_sentences: [s.strip() for s in ... if s.strip()]
split_into_sentences(text) ==
    LET pieces == re_split(text, 1, Len(text))
    IN SelectSeq([i \in 1..Len(pieces) |-> strip(pieces[i])], NonEmpty)

\* " ".join(parts), joined over the two halves of the list
RECURSIVE join(_)
join(parts) ==
    IF Len(parts) = 0 THEN <<>>
    ELSE IF Len(parts) = 1 THEN parts[1]
    ELSE join(SubSeq(parts, 1, Len(parts) \div 2)) \o <<Space(1)>>
         \o join(SubSeq(parts, Len(parts) \div 2 + 1, Len(parts)))

\* (mutation: the first n)
LastN_first(seq, n) == IF Len(seq) <= n THEN seq ELSE SubSeq(seq, 1, n)
\* seq[-n:]
LastN(seq, n) == IF Len(seq) <= n THEN seq ELSE SubSeq(seq, Len(seq) - n + 1, Len(seq))

\* sum(cls._approx_tokens(s) for s in current_chunk)
RECURSIVE SumTokens(_, _)
SumTokens(sentences, chunk) ==
    IF Len(chunk) = 0 THEN 0
    ELSE approx_tokens(sentences[Head(chunk)]) + SumTokens(sentences, Tail(chunk))

\* (mutation: the chunk is closed once it is over the limit)
must_close_late(current_tokens, sent_tokens, current_chunk) ==
    current_tokens > MAX_TOKENS /\ Len(current_chunk) > 0
\* if current_tokens + sent_tokens > cls.MAX_TOKENS and current_chunk
must_close(current_tokens, sent_tokens, current_chunk) ==
    current_tokens + sent_tokens > MAX_TOKENS /\ Len(current_chunk) > 0

\* The chunk _chunk_sentences yields for current_chunk.
Yielded(sentences, chunk, carried) ==
    [sentences |-> chunk, carried |-> carried,
     text |-> join([k \in 1..Len(chunk) |-> sentences[chunk[k]]])]

\* (mutation: indices counted from 1)
chunk_index_from_one(pos) == pos
\* enumerate(chunks): the index of the chunk at position pos (from 1)
chunk_index(pos) == pos - 1

\* f"{doc.id}-{idx}"
doc_id(parent_id, idx) == parent_id \o "-" \o ToString(idx)

\* (mutation: the sentence is put before those of the chunk)
current_chunk_insert(current_chunk, sentence) == <<sentence>> \o current_chunk
\* current_chunk.append(sentence)
current_chunk_append(current_chunk, sentence) == Append(current_chunk, sentence)

\* Document.__post_init__ on the metadata given to the constructor.
post_init(metadata, parent_id, idx, chunk_token_count) ==
    setdefault(setdefault(setdefault(metadata, "parent_id", parent_id),
                          "chunk_index", idx),
               "chunk_token_count", chunk_token_count)

\* transform up to the first sentence of the loop of _chunk_sentences.
TransformCall ==
    /\ dState = "idle"
    /\ dState' = "chunking"
    /\ dSentences' = split_into_sentences(normalise(dDoc.cleaned_text))
    /\ dPos' = 1
    /\ dCurrent' = <<>>
    /\ dTokens' = 0
    /\ dCarried' = 0
    /\ dChunks' = <<>>
    /\ dOut' = <<>>
    /\ UNCHANGED <<entry, now, cacheVars, pipelineVars, cacheTaskVars, validVars, reportVars, dDoc,
                   dDepth, bulkVars>>

\* One turn of `for sentence in sentences`.
ChunkSentence ==
    /\ dState = "chunking"
    /\ dPos <= Len(dSentences)
    /\ LET sent_tokens == approx_tokens(dSentences[dPos])
           close == must_close(dTokens, sent_tokens, dCurrent)
           overlap_sentences == LastN(dCurrent, OVERLAP_SENTENCES)
       IN
       /\ dChunks' = IF close
                     THEN Append(dChunks, Yielded(dSentences, dCurrent, dCarried))
                     ELSE dChunks
       /\ dCurrent' = current_chunk_append(IF close THEN overlap_sentences ELSE dCurrent,
                                            dPos)
       /\ dTokens' = (IF close THEN SumTokens(dSentences, overlap_sentences) ELSE dTokens)
                     + sent_tokens
       /\ dCarried' = IF close THEN Len(overlap_sentences) ELSE dCarried
    /\ dPos' = dPos + 1
    /\ UNCHANGED <<entry, now, cacheVars, pipelineVars, cacheTaskVars, validVars, reportVars,
                   dState, dDoc, dSentences, dOut, dDepth, bulkVars>>

\* The loop is over: the last chunk is yielded when current_chunk is not
\* empty, and transform builds one Document per chunk.
ChunkEnd ==
    /\ dState = "chunking"
    /\ dPos > Len(dSentences)
    /\ LET chunks == IF Len(dCurrent) > 0
                     THEN Append(dChunks, Yielded(dSentences, dCurrent, dCarried))
                     ELSE dChunks
       IN
       /\ dChunks' = chunks
       /\ dOut' = [k \in 1..Len(chunks) |->
                     [id |-> doc_id(dDoc.id, chunk_index(k)),
                      parent_id |-> dDoc.id,
                      chunk_index |-> chunk_index(k),
                      metadata |-> post_init(dDoc.metadata, dDoc.id, chunk_index(k),
                                             approx_tokens(chunks[k].text)),
                      chunk_text |-> chunks[k].text,
                      chunk_token_count |-> approx_tokens(chunks[k].text)]]
    /\ dState' = "done"
    /\ UNCHANGED <<entry, now, cacheVars, pipelineVars, cacheTaskVars, validVars, reportVars,
                   dDoc, dSentences, dPos, dCurrent, dTokens, dCarried,
                   dDepth, bulkVars>>

\* The caller gives transform a document whose cleaned_text is the
\* chunk_text of a chunk the call before produced.
Rechunk ==
    /\ bState = "off"
    /\ dState = "done"
    /\ dDepth < MaxRechunks
    /\ \E k \in 1..Len(dOut) :
          dDoc' = [dDoc EXCEPT !.cleaned_text = dOut[k].chunk_text]
    /\ dState' = "idle"
    /\ dDepth' = dDepth + 1
    /\ UNCHANGED <<entry, now, cacheVars, pipelineVars, cacheTaskVars, validVars, reportVars,
                   dSentences, dPos, dCurrent, dTokens, dCarried, dChunks, dOut,
                   bulkVars>>

\* (mutation: the chunks of a document are put before those gathered so far)
chain_front(all_chunks, chunks) == chunks \o all_chunks
\* itertools.chain.from_iterable: the chunks of the next document follow
\* those gathered so far
chain(all_chunks, chunks) == all_chunks \o chunks

\* transform_bulk up to its first transform(d); [] for no document.
TransformBulkCall ==
    /\ bState = "idle"
    /\ bAll' = <<>>
    /\ bParts' = <<>>
    /\ IF Len(bDocs) = 0
       THEN /\ bState' = "returned"
            /\ bPos' = 0
            /\ UNCHANGED <<dState, dDoc>>
       ELSE /\ bState' = "running"
            /\ bPos' = 1
            /\ dDoc' = bDocs[1]
            /\ dState' = "idle"
    /\ UNCHANGED <<entry, now, cacheVars, pipelineVars, cacheTaskVars, validVars, reportVars,
                   dSentences, dPos, dCurrent, dTokens, dCarried, dChunks, dOut,
                   dDepth, bDocs>>

\* transform(d) returned: its chunks are chained, and the generator goes
\* on to the next document or is exhausted and transform_bulk returns.
TransformBulkNext ==
    /\ bState = "running"
    /\ dState = "done"
    /\ bAll' = chain(bAll, dOut)
    /\ bParts' = Append(bParts, dOut)
    /\ IF bPos < Len(bDocs)
       THEN /\ bPos' = bPos + 1
            /\ dDoc' = bDocs[bPos + 1]
            /\ dState' = "idle"
            /\ UNCHANGED bState
       ELSE /\ bState' = "returned"
            /\ UNCHANGED <<bPos, dDoc, dState>>
    /\ UNCHANGED <<entry, now, cacheVars, pipelineVars, cacheTaskVars, validVars, reportVars,
                   dSentences, dPos, dCurrent, dTokens, dCarried, dChunks, dOut,
                   dDepth, bDocs>>

\* The documents given to transform.  Short texts: up to MaxSegments Words
\* tokens of up to MaxWords words, whitespace runs of up to MaxSpaces
\* characters between them, with or without whitespace at either end.
Interleave(segs, gaps) ==
    [j \in 1..(2 * Len(segs) - 1) |->
        IF j % 2 = 1 THEN segs[(j + 1) \div 2] ELSE Space(gaps[j \div 2])]
Edge(n) == IF n > 0 THEN <<Space(n)>> ELSE <<>>
ShortTexts ==
    {<<>>} \cup {<<Space(n)>> : n \in 1..MaxSpaces}
    \cup UNION {
           {Edge(lead) \o Interleave(segs, gaps) \o Edge(trail) :
                segs \in [1..k -> {Words(n, t) : n \in 1..MaxWords, t \in BOOLEAN}],
                gaps \in [1..(k - 1) -> 1..MaxSpaces],
                lead \in 0..1, trail \in 0..1}
           : k \in 1..MaxSegments}

\* Long texts: n sentences of w words each, one space between sentences.
SentenceShapes == {<<3, 20>>, <<40, 20>>, <<171, 3>>, <<3, 342>>}
Uniform(n, w) == Interleave([i \in 1..n |-> Words(w, TRUE)], [i \in 1..(n - 1) |-> 1])
\* and sentences of the given numbers of words.
MixedShapes == {<<343, 339>>, <<171, 171, 171, 167>>}
Mixed(ws) == Interleave([i \in 1..Len(ws) |-> Words(ws[i], TRUE)], [i \in 1..(Len(ws) - 1) |-> 1])
LongTexts ==
    {Uniform(shape[1], shape[2]) : shape \in SentenceShapes}
    \cup {Mixed(ws) : ws \in MixedShapes}

\* The documents given to transform_bulk: of no, one and three chunks.
BulkDocs ==
    [id : {"d", "e"}, cleaned_text : {<<>>, Uniform(3, 20), Uniform(3, 342)},
     metadata : {[source |-> "google_cse+tavily"]}]
BulkInputs == UNION {[1..n -> BulkDocs] : n \in 0..MaxBulk}

DocIds == {"d", "d-1"}

\* The metadata of the document given to transform: none, that of
\* ingestion, and that of a document that was itself made from a chunk.
ChunkMetadata ==
    [source |-> "google_cse+tavily", parent_id |-> "p", chunk_index |-> 0,
     chunk_token_count |-> 45]
TransformDocs ==
    [id : DocIds, cleaned_text : ShortTexts \cup LongTexts, metadata : {<<>>}]
    \cup [id : DocIds, cleaned_text : LongTexts,
          metadata : {[source |-> "google_cse+tavily"], ChunkMetadata}]

-----------------------------------------------------------------------------
(* DataValidatorCleaner and validate_clean_bulk (data_validation.py)        *)
(*                                                                          *)
(* A raw text is a sequence of runs: Run(c, d, n) stands for n copies of    *)
(* the character c HTML-escaped d times ("<", "&lt;", "&amp;lt;", ... and   *)
(* " ", "&#32;", "&amp;#32;", ...; the letter "a" is never escaped).        *)
(* Adjacent runs differ in c or in d.                                       *)

Run(c, d, n) == [c |-> c, d |-> d, n |-> n]

\* The characters of one copy: each escape turns "<" into "&lt;", " " into
\* "&#32;" and "&" into "&amp;".
RECURSIVE Escaped(_, _)
Escaped(c, d) ==
    IF d = 0 THEN <<c>>
    ELSE IF d = 1 THEN (IF c = "<" THEN <<"&", "l", "t", ";">> ELSE <<"&", "#", "3", "2", ";">>)
    ELSE <<"&", "a", "m", "p", ";">> \o Tail(Escaped(c, d - 1))

\* The characters of a run, and of a text.
RunChars(r) ==
    LET unit == Escaped(r.c, r.d)
    IN [i \in 1..(r.n * Len(unit)) |-> unit[((i - 1) % Len(unit)) + 1]]
RECURSIVE Chars(_)
Chars(text) == IF Len(text) = 0 THEN <<>> ELSE RunChars(Head(text)) \o Chars(Tail(text))

\* Adjacent runs of the same character, escaped as many times, are one run.
RECURSIVE Canon(_)
Canon(text) ==
    IF Len(text) <= 1 THEN text
    ELSE LET a == text[1]
             b == text[2]
         IN IF a.c = b.c /\ a.d = b.d
            THEN Canon(<<Run(a.c, a.d, a.n + b.n)>> \o SubSeq(text, 3, Len(text)))
            ELSE <<a>> \o Canon(Tail(text))

\* html.unescape(text): one level of escaping is removed
html_unescape(text) ==
    Canon([i \in 1..Len(text) |->
             IF text[i].d > 0 THEN Run(text[i].c, text[i].d - 1, text[i].n) ELSE text[i]])

\* a run of whitespace characters, matched by \s and removed by str.strip()
IsSpaceRun(r) == r.c = " " /\ r.d = 0

\* re.sub(r"\s+", " ", text)
collapse(text) ==
    [i \in 1..Len(text) |-> IF IsSpaceRun(text[i]) THEN Run(" ", 0, 1) ELSE text[i]]

\* text.strip()
RECURSIVE str_strip(_)
str_strip(text) ==
    IF Len(text) > 0 /\ IsSpaceRun(Head(text)) THEN str_strip(Tail(text))
    ELSE IF Len(text) > 0 /\ IsSpaceRun(text[Len(text)])
         THEN str_strip(SubSeq(text, 1, Len(text) - 1))
    ELSE text

\* clean_text: HTML unescape, collapse whitespace, strip
clean_text(text) == str_strip(collapse(html_unescape(text)))

\* The document as validate reads it: its text as characters.
AsCharacters(doc) == [doc EXCEPT !.text = Chars(doc.text)]

\* (mutation: the text is carried over as it is)
CleanDocument_uncleaned(doc, cleaned_text) ==
    [id |-> doc.id, title |-> doc.title, raw_format |-> doc.raw_format,
     text |-> doc.text, url |-> doc.url, metadata |-> doc.metadata,
     cleaned_text |-> doc.text]
\* CleanDocument(**doc.__dict__, cleaned_text=cleaned_text)
CleanDocument(doc, cleaned_text) ==
    [id |-> doc.id, title |-> doc.title, raw_format |-> doc.raw_format,
     text |-> doc.text, url |-> doc.url, metadata |-> doc.metadata,
     cleaned_text |-> cleaned_text]

\* (mutation: the result is put before those kept so far)
cleaned_prepend(cleaned, result) == <<result>> \o cleaned
\* cleaned.append(result)
cleaned_append(cleaned, result) == Append(cleaned, result)

\* validate_clean_bulk up to its for-loop.
ValidateCleanBulkCall ==
    /\ vState = "idle"
    /\ vState' = "running"
    /\ vCleaned' = <<>>
    /\ vChecked' = <<>>
    /\ vPos' = 1
    /\ UNCHANGED <<entry, now, cacheVars, pipelineVars, cacheTaskVars, chunkVars,
                   reportVars,
                   vDocs, vGiven, kText, kPrev, kCalls>>

\* One turn of `for doc in docs`: validate_and_clean(doc), whose result, a
\* CleanDocument (always true) or None, is appended `if result`.  An invalid
\* document gets its errors recorded in its metadata.
ValidateAndClean ==
    /\ vState = "running"
    /\ vPos <= Len(vDocs)
    /\ LET doc == vDocs[vPos]
           errors == validate(AsCharacters(doc))
           checked == [valid |-> Len(errors) = 0, errors |-> errors]
       IN /\ vChecked' = Append(vChecked, checked)
          /\ IF ~checked.valid
             THEN /\ vDocs' = [vDocs EXCEPT ![vPos].metadata =
                                  setdefault(@, "validation_errors", checked.errors)]
                  /\ UNCHANGED vCleaned
             ELSE /\ vCleaned' = cleaned_append(vCleaned,
                                                CleanDocument(doc, clean_text(doc.text)))
                  /\ UNCHANGED vDocs
    /\ vPos' = vPos + 1
    /\ UNCHANGED <<entry, now, cacheVars, pipelineVars, cacheTaskVars, chunkVars,
                   reportVars,
                   vState, vGiven, kText, kPrev, kCalls>>

\* The loop is over: return cleaned.
ValidateCleanBulkReturn ==
    /\ vState = "running"
    /\ vPos > Len(vDocs)
    /\ vState' = "returned"
    /\ UNCHANGED <<entry, now, cacheVars, pipelineVars, cacheTaskVars, chunkVars,
                   reportVars,
                   vDocs, vGiven, vPos, vCleaned, vChecked, kText, kPrev, kCalls>>

\* A caller applies clean_text to a text, then to what it returned.
CleanText ==
    /\ entry = "clean_text"
    /\ kCalls < MaxCleans
    /\ kPrev' = kText
    /\ kText' = clean_text(kText)
    /\ kCalls' = kCalls + 1
    /\ UNCHANGED <<entry, now, cacheVars, pipelineVars, cacheTaskVars, chunkVars,
                   reportVars,
                   vState, vDocs, vGiven, vPos, vCleaned, vChecked>>

\* The raw texts: up to MaxRuns runs of 1, 99 or 100 copies.
RunLens == {1, 99, 100}
Runs ==
    {Run("a", 0, n) : n \in RunLens}
    \cup {Run(c, d, n) : c \in {" ", "<"}, d \in 0..MaxEscape, n \in RunLens}
RawTexts ==
    UNION {{t \in [1..k -> Runs] : Canon(t) = t} : k \in 0..MaxRuns}

\* The documents: every text with a title and a supported format, and the
\* texts of at most one run also without title or of an unsupported format.
RawDocs ==
    [id : {"r"}, title : {"t"}, raw_format : {"html"}, text : RawTexts, url : {"u"},
     metadata : {<<>>}]
    \cup [id : {"r"}, title : {"", "t"}, raw_format : {"html", "rtf"},
          text : {t \in RawTexts : Len(t) <= 1}, url : {"u"}, metadata : {<<>>}]
\* Documents for lists of several, with the metadata ingestion gives: valid
\* ones, an empty one, one of escaped spaces only; and one without title,
\* with no metadata or with errors already recorded.
SeveralDocs ==
    [id : {"r"}, title : {"t"}, raw_format : {"html"},
     text : {<<Run("a", 0, 100)>>, <<>>, <<Run(" ", 1, 100)>>,
             <<Run(" ", 0, 1), Run("<", 1, 100)>>},
     url : {"u"}, metadata : {[source |-> "google_cse+tavily"]}]
    \cup {[id |-> "r", title |-> "", raw_format |-> "html",
           text |-> <<Run("a", 0, 100)>>, url |-> "u", metadata |-> meta] :
            meta \in {<<>>, [validation_errors |-> <<"Earlier error">>]}}
\* Each document of a list has its own id (ingestion gives a uuid4).
WithIds(docs) == [i \in 1..Len(docs) |-> [docs[i] EXCEPT !.id = "r" \o ToString(i)]]
RawInputs ==
    {WithIds(docs) : docs \in [1..1 -> RawDocs] \cup {<<>>}
                              \cup UNION {[1..n -> SeveralDocs] : n \in 2..MaxRaw}}

-----------------------------------------------------------------------------
(* Construction: GoogleSearchClient.__init__, get_google_search_client,     *)
(* get_tavily_client, IngestionService.__init__                             *)

\* (mutation: only the absence of both settings is an error)
google_config_missing_both(api_key, cse_id) == ~api_key /\ ~cse_id
\* if not self.api_key or not self.cse_id
google_config_missing(api_key, cse_id) == ~api_key \/ ~cse_id

\* GoogleSearchClient(): no argument given, the settings come from os.getenv
GoogleSearchClientInit ==
    IF google_config_missing(env.GOOGLE_CSE_API_KEY, env.GOOGLE_CSE_ID)
    THEN "ValueError" ELSE "yes"

\* get_tavily_client(): no client was built before
get_tavily_client == IF ~env.TAVILY_API_KEY THEN "RuntimeError" ELSE "yes"

\* The client program builds what it drives: GoogleSearchClient(),
\* get_tavily_client(), or IngestionService(google_search, tavily), which
\* builds first the google client, then the tavily client, each unless it
\* was injected.  An exception ends the construction.
Construct ==
    /\ built = "no"
    /\ built' =
          CASE entry = "google" -> GoogleSearchClientInit
            [] entry \in {"tavily_search", "tavily_extract"} -> get_tavily_client
            [] entry = "ingest" ->
                 IF ~iInjected /\ GoogleSearchClientInit # "yes" THEN GoogleSearchClientInit
                 ELSE IF ~iTavily THEN get_tavily_client
                 ELSE "yes"
    /\ UNCHANGED <<cacheTaskVars, chunkVars, validVars, reportVars>>
    /\ UNCHANGED <<entry, now, cacheVars, googleVars, tavilyVars, extractVars, ingestVars, env>>

\* The settings of the environment; a setting the construction driven does
\* not read is taken as set.
AllSet == [GOOGLE_CSE_API_KEY |-> TRUE, GOOGLE_CSE_ID |-> TRUE, TAVILY_API_KEY |-> TRUE]
Environments(reads_google, reads_tavily) ==
    {e \in [GOOGLE_CSE_API_KEY : BOOLEAN, GOOGLE_CSE_ID : BOOLEAN, TAVILY_API_KEY : BOOLEAN] :
        /\ (~reads_google => (e.GOOGLE_CSE_API_KEY /\ e.GOOGLE_CSE_ID))
        /\ (~reads_tavily => e.TAVILY_API_KEY)}

-----------------------------------------------------------------------------
(* ResearchAgent (research_agent.py): report generation.                    *)
(*                                                                          *)
(* start_report_generation creates a task that runs the workflow            *)
(* analyze_sources -> generate_report.  analyze_sources is a coroutine: it  *)
(* is suspended only at `await chain.ainvoke`.  generate_report is a plain  *)
(* function, which the graph runs outside the event loop when it is invoked *)
(* with ainvoke: a query can be served between any two of its statements.   *)
(* Progress is in percent.                                                  *)

\* str(uuid.uuid4()): an id no report has; ids nobody was given exist too.
ReportIds == {"r" \o ToString(n) : n \in 1..MaxReports}
QueryIds == ReportIds \cup {"unknown"}

\* (mutation: the progress is set to 100 before the report is stored)
generate_report_completed_first ==
    <<"progress_60", "progress_75", "invoke", "progress_100", "store">>
\* The statements of generate_report that change the agent or can raise.
generate_report_steps ==
    <<"progress_60", "progress_75", "invoke", "store", "progress_100">>

\* Report(id=report_id, ...)
Report(report_id) == [id |-> report_id, content |-> "report " \o report_id]

\* "completed" if progress == 100.0 else "failed" if progress == -1.0 else "in_progress"
status_of(progress) ==
    IF progress = 100 THEN "completed" ELSE IF progress = -1 THEN "failed" ELSE "in_progress"

\* get_generation_progress(report_id): what it returns, or the error raised.
get_generation_progress(report_id) ==
    IF report_id \notin DOMAIN rProgress
    THEN [op |-> "get_generation_progress", id |-> report_id, raised |-> "ValueError",
          progress |-> 0, status |-> "", report |-> Report("")]
    ELSE [op |-> "get_generation_progress", id |-> report_id, raised |-> "",
          progress |-> rProgress[report_id], status |-> status_of(rProgress[report_id]),
          report |-> Report("")]

\* get_report(report_id): the Report it returns, or the error raised.
get_report(report_id) ==
    IF report_id \notin DOMAIN rReports
    THEN [op |-> "get_report", id |-> report_id, raised |-> "ValueError",
          progress |-> 0, status |-> "", report |-> Report("")]
    ELSE [op |-> "get_report", id |-> report_id, raised |-> "",
          progress |-> 0, status |-> "", report |-> rReports[report_id]]

\* start_report_generation: progress 0 under a new id, the task is created.
StartReportGeneration ==
    /\ entry = "report"
    /\ \E report_id \in ReportIds \ DOMAIN rProgress :
          /\ rProgress' = (report_id :> 0) @@ rProgress
          /\ rTasks' = (report_id :> [pc |-> "created", step |-> 0]) @@ rTasks
    /\ UNCHANGED <<entry, now, cacheVars, pipelineVars, cacheTaskVars, chunkVars, validVars,
                   rReports, rAnswer>>

\* The task starts: analyze_sources up to `await chain.ainvoke` (progress 10,
\* then 25, with no suspension between the two).
AnalyzeSourcesBegin(report_id) ==
    /\ rTasks[report_id].pc = "created"
    /\ rTasks' = [rTasks EXCEPT ![report_id].pc = "analyzing"]
    /\ rProgress' = [rProgress EXCEPT ![report_id] = 25]
    /\ UNCHANGED <<entry, now, cacheVars, pipelineVars, cacheTaskVars, chunkVars, validVars,
                   rReports, rAnswer>>

\* The model answers or raises; _execute_workflow sets -1 on any exception.
AnalyzeSourcesEnd(report_id) ==
    /\ rTasks[report_id].pc = "analyzing"
    /\ \E answered \in BOOLEAN :
          IF answered
          THEN /\ rTasks' = [rTasks EXCEPT ![report_id] = [pc |-> "generating", step |-> 1]]
               /\ UNCHANGED rProgress
          ELSE /\ rTasks' = [rTasks EXCEPT ![report_id].pc = "failed"]
               /\ rProgress' = [rProgress EXCEPT ![report_id] = -1]
    /\ UNCHANGED <<entry, now, cacheVars, pipelineVars, cacheTaskVars, chunkVars, validVars,
                   rReports, rAnswer>>

\* The next statement of generate_report; after the last one the workflow
\* ends and the task is over.
GenerateReportStep(report_id) ==
    /\ rTasks[report_id].pc = "generating"
    /\ LET k == rTasks[report_id].step
           statement == generate_report_steps[k]
           after == IF k = Len(generate_report_steps)
                    THEN [pc |-> "ended", step |-> 0]
                    ELSE [pc |-> "generating", step |-> k + 1]
       IN CASE statement = "progress_60" ->
                 /\ rProgress' = [rProgress EXCEPT ![report_id] = 60]
                 /\ rTasks' = [rTasks EXCEPT ![report_id] = after]
                 /\ UNCHANGED rReports
            [] statement = "progress_75" ->
                 /\ rProgress' = [rProgress EXCEPT ![report_id] = 75]
                 /\ rTasks' = [rTasks EXCEPT ![report_id] = after]
                 /\ UNCHANGED rReports
            [] statement = "invoke" ->
                 \* chain.invoke and Report(...): either may raise
                 /\ \E answered \in BOOLEAN :
                       IF answered
                       THEN /\ rTasks' = [rTasks EXCEPT ![report_id] = after]
                            /\ UNCHANGED rProgress
                       ELSE /\ rTasks' = [rTasks EXCEPT ![report_id].pc = "failed"]
                            /\ rProgress' = [rProgress EXCEPT ![report_id] = -1]
                 /\ UNCHANGED rReports
            [] statement = "store" ->
                 /\ rReports' = (report_id :> Report(report_id)) @@ rReports
                 /\ rTasks' = [rTasks EXCEPT ![report_id] = after]
                 /\ UNCHANGED rProgress
            [] statement = "progress_100" ->
                 /\ rProgress' = [rProgress EXCEPT ![report_id] = 100]
                 /\ rTasks' = [rTasks EXCEPT ![report_id] = after]
                 /\ UNCHANGED rReports
    /\ UNCHANGED <<entry, now, cacheVars, pipelineVars, cacheTaskVars, chunkVars, validVars,
                   rAnswer>>

AnalyzeBegin == \E report_id \in DOMAIN rTasks : AnalyzeSourcesBegin(report_id)
AnalyzeEnd == \E report_id \in DOMAIN rTasks : AnalyzeSourcesEnd(report_id)
GenerateReport == \E report_id \in DOMAIN rTasks : GenerateReportStep(report_id)

\* A client asks for the progress of an id.
GetGenerationProgress ==
    /\ entry = "report"
    /\ \E report_id \in QueryIds : rAnswer' = get_generation_progress(report_id)
    /\ UNCHANGED <<entry, now, cacheVars, pipelineVars, cacheTaskVars, chunkVars, validVars,
                   rProgress, rReports, rTasks>>

\* A client asks for the report of an id.
GetReport ==
    /\ entry = "report"
    /\ \E report_id \in QueryIds : rAnswer' = get_report(report_id)
    /\ UNCHANGED <<entry, now, cacheVars, pipelineVars, cacheTaskVars, chunkVars, validVars,
                   rProgress, rReports, rTasks>>

-----------------------------------------------------------------------------
(* Initial states and specifications *)

NoHistory == [has |-> FALSE, result |-> PyNone, at |-> 0]
IdleTask == [NewRetryTask(0) EXCEPT !.pc = "idle"]

InitCommon ==
    /\ now = 0
    /\ memCache = <<>>
    /\ gState = "idle"
    /\ gTasks = <<>>
    /\ gNext = 1
    /\ gResults = <<>>
    /\ gRet = <<>>
    /\ gFetched = <<>>
    /\ gPrior = <<>>
    /\ gOrder = <<>>
    /\ tTask = IdleTask
    /\ tLast = NoHistory
    /\ tSeen = NoHistory
    /\ xTasks = <<>>
    /\ xLast = NoHistory
    /\ xSeen = NoHistory
    /\ xOrder = <<>>
    /\ iState = "idle"
    /\ iDocs = <<>>
    /\ built = "no"

\* No client task uses the Cache directly; the shared store is reachable.
InitNoCacheTasks ==
    /\ redisUp = TRUE
    /\ cTasks = [i \in CacheTaskIds |-> NewCacheTask]
    /\ cWrote = <<>>

\* transform is not called.
InitNoTransform ==
    /\ dState = "idle"
    /\ dDoc = [id |-> "", cleaned_text |-> <<>>, metadata |-> <<>>]
    /\ dSentences = <<>>
    /\ dPos = 1
    /\ dCurrent = <<>>
    /\ dTokens = 0
    /\ dCarried = 0
    /\ dChunks = <<>>
    /\ dOut = <<>>
    /\ dDepth = 0
    /\ bState = "off"
    /\ bDocs = <<>>
    /\ bPos = 0
    /\ bParts = <<>>
    /\ bAll = <<>>

\* No report is generated.
NoAnswer ==
    [op |-> "none", id |-> "", raised |-> "", progress |-> 0, status |-> "",
     report |-> Report("")]
InitNoReport ==
    /\ rProgress = <<>>
    /\ rReports = <<>>
    /\ rTasks = <<>>
    /\ rAnswer = NoAnswer

\* Neither validate_clean_bulk nor clean_text is called.
InitNoValidate ==
    /\ vState = "off"
    /\ vDocs = <<>>
    /\ vGiven = <<>>
    /\ vPos = 0
    /\ vCleaned = <<>>
    /\ vChecked = <<>>
    /\ kText = <<>>
    /\ kPrev = <<>>
    /\ kCalls = 0

\* The shared store is a server at REDIS_URL that outlives the process: when
\* the Cache is constructed it may already hold page entries, as a
\* Cache.set(key, json.dumps(results), ttl) leaves them.  An entry holds a
\* page of PAGE_SIZE results numbered from its start.
StoredPage(key) ==
    [value |-> json_dumps(json_dumps(PyList([i \in 1..PAGE_SIZE |-> key.a + i - 1]))),
     expiry |-> GOOGLE_CACHE_TTL]
RedisAtStart(query, max_results) ==
    LET plan == PagePlan(max_results, 1)
        keyOf(i) == make_cache_key(query, plan[i].start, plan[i].num, "off", "None")
    IN {[k \in {keyOf(i) : i \in S} |-> StoredPage(k)] : S \in SUBSET (1..Len(plan))}

DefaultGoogleArgs == [query |-> "q1", max_results |-> 0]
DefaultTavilyArgs == [query |-> "q1", max_results |-> 1, freshness |-> "None"]

Init ==
    /\ InitCommon
    /\ InitNoReport
    /\ InitNoCacheTasks
    /\ InitNoTransform
    /\ InitNoValidate
    /\ useRedis \in BOOLEAN
    /\ \/ /\ entry = "google"
          /\ gArgs \in [query : {"q1"}, max_results : -1..MaxResultsBound]
          /\ redisStore \in IF useRedis THEN RedisAtStart(gArgs.query, gArgs.max_results)
                                       ELSE {<<>>}
          /\ tArgs = DefaultTavilyArgs /\ tLegacy = FALSE
          /\ iInjected = FALSE /\ iTavily = FALSE
          /\ env \in Environments(TRUE, FALSE)
       \/ /\ entry = "tavily_search"
          /\ tArgs \in [query : Queries, max_results : {1, 2}, freshness : Freshness]
          /\ tLegacy \in BOOLEAN
          /\ redisStore = <<>>
          /\ gArgs = DefaultGoogleArgs /\ iInjected = FALSE /\ iTavily = FALSE
          /\ env \in Environments(FALSE, TRUE)
       \/ /\ entry = "tavily_extract"
          /\ gArgs = DefaultGoogleArgs /\ tArgs = DefaultTavilyArgs
          /\ redisStore = <<>>
          /\ tLegacy = FALSE /\ iInjected = FALSE /\ iTavily = FALSE
          /\ env \in Environments(FALSE, TRUE)
       \/ /\ entry = "ingest"
          /\ gArgs \in [query : {"q1"}, max_results : 0..MaxLinks]
          /\ iInjected \in BOOLEAN
          /\ iTavily \in BOOLEAN
          /\ redisStore = <<>>
          /\ tArgs = DefaultTavilyArgs /\ tLegacy = FALSE
          /\ env \in Environments(~iInjected, ~iTavily)

Next ==
    \/ Construct
    \/ GoogleSearchCall
    \/ SearchPage
    \/ GoogleSearchAwait
    \/ TavilySearchCall
    \/ TavilySearchStep
    \/ TavilyExtractCall
    \/ Extract
    \/ IngestTopicCall
    \/ IngestFanOut
    \/ IngestGather
    \/ Tick

Spec == Init /\ [][Next]_vars

\* ingest_topic alone, called again and again.  The shared store may hold
\* the page of the search when the service is built.  The event loop runs
\* every task that is ready: a page request, an extract, the for-loop of
\* search and ingest_topic itself each go on when they can; a caller need not
\* call again, and the clock need not advance.
InitIngest ==
    /\ InitCommon
    /\ InitNoReport
    /\ InitNoCacheTasks
    /\ InitNoTransform
    /\ InitNoValidate
    /\ useRedis \in BOOLEAN
    /\ entry = "ingest"
    /\ gArgs \in [query : {"q1"}, max_results : 0..MaxLinks]
    /\ iInjected \in BOOLEAN
    /\ iTavily \in BOOLEAN
    /\ redisStore \in IF useRedis /\ ~iInjected
                       THEN RedisAtStart(gArgs.query, gArgs.max_results)
                       ELSE {<<>>}
    /\ tArgs = DefaultTavilyArgs /\ tLegacy = FALSE
    /\ env \in Environments(~iInjected, ~iTavily)

NextIngest ==
    \/ Construct
    \/ IngestTopicCall
    \/ SearchPage
    \/ GoogleSearchAwait
    \/ IngestFanOut
    \/ Extract
    \/ IngestGather
    \/ Tick

SpecIngest ==
    /\ InitIngest
    /\ [][NextIngest]_vars
    /\ WF_vars(SearchPage)
    /\ WF_vars(GoogleSearchAwait)
    /\ WF_vars(IngestFanOut)
    /\ WF_vars(Extract)
    /\ WF_vars(IngestGather)

\* The pipeline is not run.
InitNoPipeline ==
    /\ InitCommon
    /\ gArgs = DefaultGoogleArgs /\ tArgs = DefaultTavilyArgs
    /\ tLegacy = FALSE /\ iInjected = FALSE /\ iTavily = FALSE
    /\ env = AllSet

\* Cache(): aioredis may be missing (ImportError), the server may be down.
InitCache ==
    /\ InitNoPipeline
    /\ InitNoReport
    /\ InitNoTransform
    /\ InitNoValidate
    /\ entry = "cache"
    /\ redisStore = <<>>
    /\ redisUp \in BOOLEAN
    /\ \E installed \in BOOLEAN : useRedis = (installed /\ ~from_url_raises(redisUp))
    /\ cTasks = [i \in CacheTaskIds |-> NewCacheTask]
    /\ cWrote = <<>>

NextCache ==
    \/ CacheLocal
    \/ CacheSend
    \/ CacheReply
    \/ CacheTick

SpecCache == InitCache /\ [][NextCache]_vars

\* transform(doc) for one document, or transform_bulk(docs).
InitTransform ==
    /\ InitNoPipeline
    /\ InitNoReport
    /\ InitNoCacheTasks
    /\ InitNoValidate
    /\ useRedis = FALSE
    /\ redisStore = <<>>
    /\ \/ /\ entry = "transform"
          /\ dState = "idle"
          /\ dDoc \in TransformDocs
          /\ bState = "off"
          /\ bDocs = <<>>
       \/ /\ entry = "transform_bulk"
          /\ dState = "uncalled"
          /\ dDoc = [id |-> "", cleaned_text |-> <<>>, metadata |-> <<>>]
          /\ bState = "idle"
          /\ bDocs \in BulkInputs
    /\ dDepth = 0
    /\ bPos = 0
    /\ bParts = <<>>
    /\ bAll = <<>>
    /\ dSentences = <<>>
    /\ dPos = 1
    /\ dCurrent = <<>>
    /\ dTokens = 0
    /\ dCarried = 0
    /\ dChunks = <<>>
    /\ dOut = <<>>

NextTransform ==
    \/ TransformCall
    \/ ChunkSentence
    \/ ChunkEnd
    \/ Rechunk
    \/ TransformBulkCall
    \/ TransformBulkNext

SpecTransform == InitTransform /\ [][NextTransform]_vars

\* validate_clean_bulk(docs), or clean_text(text) applied again and again.
InitValidate ==
    /\ InitNoPipeline
    /\ InitNoReport
    /\ InitNoCacheTasks
    /\ InitNoTransform
    /\ useRedis = FALSE
    /\ redisStore = <<>>
    /\ vPos = 0
    /\ vCleaned = <<>>
    /\ vChecked = <<>>
    /\ kPrev = <<>>
    /\ kCalls = 0
    /\ \/ /\ entry = "validate_clean_bulk"
          /\ vState = "idle"
          /\ vDocs \in RawInputs
          /\ vGiven = vDocs
          /\ kText = <<>>
       \/ /\ entry = "clean_text"
          /\ vState = "off"
          /\ vDocs = <<>>
          /\ vGiven = <<>>
          /\ kText \in RawTexts

NextValidate ==
    \/ ValidateCleanBulkCall
    \/ ValidateAndClean
    \/ ValidateCleanBulkReturn
    \/ CleanText

SpecValidate == InitValidate /\ [][NextValidate]_vars

\* Reports are started, generated and asked for.
InitReport ==
    /\ InitNoPipeline
    /\ InitNoCacheTasks
    /\ InitNoTransform
    /\ InitNoValidate
    /\ InitNoReport
    /\ useRedis = FALSE
    /\ redisStore = <<>>
    /\ entry = "report"

NextReport ==
    \/ StartReportGeneration
    \/ AnalyzeBegin
    \/ AnalyzeEnd
    \/ GenerateReport
    \/ GetGenerationProgress
    \/ GetReport

SpecReport == InitReport /\ [][NextReport]_vars

-----------------------------------------------------------------------------
(* Properties *)

PageFinished(t) == t.pc \in {"done", "raised"}
RetryFinished(t) == t.pc \in {"done", "raised"}
Ints(a, b) == [k \in 1..(b - a + 1) |-> a + k - 1]

\* The results of the pages whose request got an answer from the provider
\* (or from the cache), in page order.
RECURSIVE AnsweredResults(_)
AnsweredResults(tasks) ==
    IF Len(tasks) = 0 THEN <<>>
    ELSE (IF Head(tasks).ok \/ Head(tasks).pc = "done" THEN Head(tasks).results ELSE <<>>)
         \o AnsweredResults(Tail(tasks))

\* C1: when the provider answers every page request, within the three
\* attempts of that page, with 10 items that all have links,
\* search(query, max_results=15) returns exactly the 15 results 1..15: the
\* ten of the start=1 page followed by the first five of the start=11 page.
C1_FifteenResultsInPageOrder ==
    (/\ entry = "google"
     /\ gState = "returned"
     /\ gArgs.max_results = 15
     /\ \A i \in 1..Len(gTasks) :
            gTasks[i].ok /\ gTasks[i].results = Ints(gTasks[i].start, gTasks[i].start + PAGE_SIZE - 1))
    => gRet = Ints(1, 15)

\* The provider delivered, at the last invocation of extract task t, a
\* document that passes validation.
ProviderGaveValid(t) == ~IsNone(t.got) /\ t.got.body.text = "good"
\* The provider failed at the last invocation of t, or delivered empty text.
ProviderFailedOrEmpty(t) ==
    IF IsNone(t.got) THEN t.pc = "raised" ELSE t.got.body.text = "empty"
ValidCount(tasks) == Cardinality({i \in 1..Len(tasks) : ProviderGaveValid(tasks[i])})

\* C2: if search discovers n URLs and the provider fails or gives empty text
\* for k of them while it gives a valid document for the other n-k,
\* ingest_topic returns exactly n-k documents (and does not raise).
C2_IngestReturnsSurvivors ==
    (/\ entry = "ingest"
     /\ iState \in {"returned", "raised"}
     /\ \A i \in 1..Len(xTasks) :
            ProviderGaveValid(xTasks[i]) \/ ProviderFailedOrEmpty(xTasks[i]))
    => (iState = "returned" /\ Len(iDocs) = ValidCount(xTasks))

\* C3: search returns the results of exactly the pages whose request was
\* answered, in page order and cut to max_results: a page that failed after
\* its retries takes only its own results away (and if every page failed
\* the list is empty); search never raises.
C3_OnlyFailedPagesDropped ==
    (entry = "google" /\ gState \in {"returned", "raised"})
    => (gState = "returned"
        /\ gRet = Truncate(AnsweredResults(gTasks), gArgs.max_results))

\* C4: ingest_topic never raises, whatever pages and extracts fail: neither
\* the search it awaits nor the gathered fetches let an exception out, and
\* what it returns is a list of documents that passed validation, at most
\* one per discovered URL.
C4_IngestNeverRaises ==
    entry = "ingest"
    => (/\ iState # "raised"
        /\ gState # "raised"
        /\ (iState = "returned"
            => /\ Len(iDocs) <= Len(xTasks)
               /\ \A k \in 1..Len(iDocs) : is_valid(iDocs[k])))

\* C4, reached: ingest_topic has returned although an extract failed at the
\* provider on all three invocations and another failed at its last one.
C4_Witness ==
    /\ entry = "ingest"
    /\ iState = "returned"
    /\ Len(xTasks) = 2
    /\ xTasks[1].pc = "raised" /\ xTasks[1].errs = <<"HTTPError", "HTTPError", "HTTPError">>
    /\ xTasks[2].pc = "raised"

\* The cached entry of the results of tSeen is still alive: the local
\* fallback never expires; the shared store drops it ttl seconds after the
\* write.
TavilyEntryAlive == ~useRedis \/ now < tSeen.at + TAVILY_SEARCH_TTL

\* C5 as stated: once search(query, max_results, freshness) has succeeded, a
\* repeat call with the same arguments, at any later time, makes no call to
\* the provider and returns results equal to those of the earlier call.
C5_RepeatAlwaysFromCache ==
    (entry = "tavily_search" /\ tSeen.has /\ tTask.pc # "idle")
    => (/\ tTask.prov = 0
        /\ RetryFinished(tTask) => (tTask.pc = "done" /\ tTask.ret = tSeen.result))

\* C5, amended: the same, for a repeat call made while the cached entry is
\* alive (always under the local fallback, within the 6 h TTL under the
\* shared store).
C5_RepeatWithinTtlFromCache ==
    (entry = "tavily_search" /\ tSeen.has /\ tTask.pc # "idle" /\ TavilyEntryAlive)
    => (/\ tTask.prov = 0
        /\ RetryFinished(tTask) => (tTask.pc = "done" /\ tTask.ret = tSeen.result))

\* C5, reached: a repeat call under the shared store, some hours after the
\* first, has returned the first call's results without a provider call.
C5_Witness ==
    /\ entry = "tavily_search" /\ useRedis
    /\ tSeen.has /\ now > tSeen.at
    /\ tTask.pc = "done" /\ tTask.prov = 0 /\ tTask.ret = tSeen.result

\* C6: a page whose provider request succeeded in an earlier search less
\* than one hour ago is served from the cache in a later search with the
\* same query, start, page size, safety flag and language: no provider
\* request is issued for it and the page task returns.
C6_RepeatPageFromCache ==
    entry = "google"
    => \A i \in 1..Len(gTasks) :
         LET t == gTasks[i]
             key == make_cache_key(gArgs.query, t.start, t.num, "off", "None")
         IN (gState # "idle" /\ key \in DOMAIN gPrior
             /\ now < gPrior[key] + GOOGLE_CACHE_TTL)
            => (t.http = 0 /\ (PageFinished(t) => t.pc = "done"))

\* C7: extract returns to its caller the content it obtained from the
\* provider, and a later extract of the same url and text_format within the
\* 6 h TTL returns that content without calling the provider.
C7_ExtractReturnsAndCaches ==
    entry = "tavily_extract"
    => \A i \in 1..Len(xTasks) :
         LET t == xTasks[i] IN
         /\ (RetryFinished(t) /\ ~IsNone(t.got)) => (t.pc = "done" /\ t.ret = t.got)
         /\ (xSeen.has /\ now < xSeen.at + EXTRACT_CACHE_TTL)
            => (t.prov = 0 /\ (RetryFinished(t) => (t.pc = "done" /\ t.ret = xSeen.result)))

\* The errors of a retried task that were followed by another invocation.
Retried(t) == IF t.pc = "raised" THEN SubSeq(t.errs, 1, Len(t.errs) - 1) ELSE t.errs
OnlyTransientRetried(t) == \A k \in 1..Len(Retried(t)) : Retried(t)[k] \in GoogleRetryOn
TavilyTasks == {tTask} \cup (IF iTavily THEN {} ELSE {xTasks[i] : i \in 1..Len(xTasks)})

C9_AtMostThreeLastErrorRaised ==
    /\ \A i \in 1..Len(gTasks) :
         LET t == gTasks[i] IN
         /\ t.attempts <= 3
         /\ Len(t.errs) <= t.attempts
         /\ t.pc = "done" => t.attempts = Len(t.errs) + (IF t.ok THEN 1 ELSE 0)
         /\ t.pc = "raised" => (Len(t.errs) = t.attempts /\ t.err = t.errs[Len(t.errs)])
    /\ \A t \in TavilyTasks :
         /\ t.invoked <= 3
         /\ t.pc = "done" => t.invoked = Len(t.errs) + 1
         /\ t.pc = "raised" => (Len(t.errs) = t.invoked /\ t.err = t.errs[Len(t.errs)])

\* C9, reached: three attempts of a page failed, the first and the last
\* with different errors.
C9_Witness ==
    \E i \in 1..Len(gTasks) :
        /\ gTasks[i].pc = "raised"
        /\ Len(gTasks[i].errs) = 3
        /\ gTasks[i].errs[1] # gTasks[i].errs[3]

CeilDiv(n, d) == (n + d - 1) \div d
Min(a, b) == IF a < b THEN a ELSE b

\* C10: search creates ceil(max_results/10) page tasks (none for
\* max_results <= 0), all of them before it awaits the first, page i with
\* start 1 + 10(i-1) and asking for min(10, what remains).
C10_PageRequests ==
    (gState # "idle" /\ ~iInjected)
    => /\ Len(gTasks) = IF gArgs.max_results <= 0 THEN 0
                        ELSE CeilDiv(gArgs.max_results, 10)
       /\ \A i \in 1..Len(gTasks) :
            /\ gTasks[i].start = 1 + 10 * (i - 1)
            /\ gTasks[i].num = Min(10, gArgs.max_results - 10 * (i - 1))

\* C10, reached: for max_results = 15 both page requests (start 1 asking 10,
\* start 11 asking 5) are in flight before search has awaited any.
C10_Witness ==
    /\ gState = "running" /\ gArgs.max_results = 15 /\ gNext = 1
    /\ Len(gTasks) = 2
    /\ gTasks[1].start = 1 /\ gTasks[1].num = 10 /\ gTasks[1].http = 1
    /\ gTasks[2].start = 11 /\ gTasks[2].num = 5 /\ gTasks[2].http = 1

-----------------------------------------------------------------------------
(* Ordering and size of what the fan-outs return *)

\* The results of the page tasks that returned, in the order the tasks were
\* created (page-start order).
RECURSIVE ReturnedPages(_)
ReturnedPages(tasks) ==
    IF Len(tasks) = 0 THEN <<>>
    ELSE (IF Head(tasks).pc = "done" THEN Head(tasks).results ELSE <<>>)
         \o ReturnedPages(Tail(tasks))

Increasing(seq) == \A a, b \in 1..Len(seq) : a < b => seq[a] < seq[b]

\* C11: whatever the order in which the page tasks finish, search returns
\* the results of the pages that returned concatenated in page-start order
\* (cut to max_results): result numbers only increase along the list, and a
\* page that raised leaves the others' results in that order.
C11_PageStartOrder ==
    (gState = "returned" /\ ~iInjected)
    => /\ gRet = Truncate(ReturnedPages(gTasks), gArgs.max_results)
       /\ Increasing(gRet)

\* C11, reached: the start=11 page finished before the start=1 page, both
\* returned results, and search returned 1..15.
C11_Witness ==
    /\ gState = "returned" /\ gArgs.max_results = 15
    /\ gOrder = <<2, 1>>
    /\ gTasks[1].pc = "done" /\ gTasks[2].pc = "done"
    /\ gRet = Ints(1, 15)

\* C12: search returns at most max_results results (none when max_results
\* is 0 or negative), whatever each page did: returned a full page, a short
\* one, more than it was asked for, raised, or came from the cache.
C12_AtMostMaxResults ==
    (gState = "returned" /\ ~iInjected)
    => Len(gRet) <= (IF gArgs.max_results > 0 THEN gArgs.max_results ELSE 0)

\* C12, reached: the pages returned 20 results between them and search
\* returned the first 15.
C12_Witness ==
    /\ gState = "returned" /\ gArgs.max_results = 15
    /\ Len(ReturnedPages(gTasks)) = 20
    /\ Len(gRet) = 15

\* The place of the document of URL u in what ingest_topic returned.
InDocs(u) == \E k \in 1..Len(iDocs) : iDocs[k].url = u
DocIndex(u) == CHOOSE k \in 1..Len(iDocs) : iDocs[k].url = u
\* The place of extract task i in the completion order.
FinishedAt(i) == CHOOSE k \in 1..Len(xOrder) : xOrder[k] = i

\* C13 as stated: when the extract of a later-discovered URL completes
\* before that of an earlier-discovered one, its document comes earlier in
\* the list ingest_topic returns.
C13_CompletionOrder ==
    (entry = "ingest" /\ iState = "returned")
    => \A i, j \in 1..Len(xTasks) :
         (/\ i < j /\ FinishedAt(j) < FinishedAt(i)
          /\ InDocs(xTasks[i].url) /\ InDocs(xTasks[j].url))
         => DocIndex(xTasks[j].url) < DocIndex(xTasks[i].url)

\* C13, amended: the documents come in search discovery order, whatever the
\* order in which the extracts completed.
C13_DiscoveryOrder ==
    (entry = "ingest" /\ iState = "returned")
    => \A i, j \in 1..Len(xTasks) :
         (i < j /\ InDocs(xTasks[i].url) /\ InDocs(xTasks[j].url))
         => DocIndex(xTasks[i].url) < DocIndex(xTasks[j].url)

\* C13, reached: the extract of the second URL completed first and both
\* documents were returned, the first URL's document first.
C13_Witness ==
    /\ entry = "ingest" /\ iState = "returned"
    /\ xOrder = <<2, 1>>
    /\ Len(iDocs) = 2
    /\ iDocs[1].url = xTasks[1].url /\ iDocs[2].url = xTasks[2].url

-----------------------------------------------------------------------------
(* The Cache *)

C15_UnreachableDegrades ==
    (entry = "cache" /\ ~redisUp)
    => (~useRedis /\ \A i \in CacheTaskIds : cTasks[i].pc # "raised")

-----------------------------------------------------------------------------
(* Chunking *)

\* The sentences chunk k holds besides those it was seeded with.
NewSentences(k) == Len(dChunks[k].sentences) - dChunks[k].carried

\* C17 as stated: every chunk transform produces, except possibly the last
\* one, has chunk_token_count <= 512.
C17_AllButLastWithinLimit ==
    dState = "done"
    => \A k \in 1..(Len(dOut) - 1) : dOut[k].chunk_token_count <= MAX_TOKENS

\* C17, amended: every chunk, the last one included, that holds at least
\* two sentences besides the overlap it was seeded with has
\* chunk_token_count <= 512; only a chunk made of its overlap (none in the
\* first chunk) and one more sentence can be larger.
C17_TwoNewSentencesWithinLimit ==
    dState = "done"
    => \A k \in 1..Len(dOut) :
         NewSentences(k) >= 2 => dOut[k].chunk_token_count <= MAX_TOKENS

\* C17, reached: a document of 40 sentences gave two chunks, the first of
\* 34 sentences and 510 tokens, the second seeded with 3 of them.
C17_Witness ==
    /\ dState = "done" /\ Len(dOut) = 2
    /\ NewSentences(1) = 34 /\ dOut[1].chunk_token_count = 510
    /\ dChunks[2].carried = 3 /\ NewSentences(2) = 6

\* C18: a document with at least one sentence whose whole normalised text
\* has fewer than 512 approximate tokens gives exactly one chunk, of
\* chunk_index 0.
C18_ShortDocumentOneChunk ==
    (/\ dState = "done"
     /\ Len(dSentences) > 0
     /\ approx_tokens(normalise(dDoc.cleaned_text)) < MAX_TOKENS)
    => (Len(dOut) = 1 /\ dOut[1].chunk_index = 0)

\* No word of the text ends with ".", "!" or "?".
NoTerminal(text) == \A i \in 1..Len(text) : ~text[i].term

\* C19: a document whose normalised text splits into no sentence, or has no
\* terminal punctuation, gives exactly one chunk, whose chunk_text is the
\* whole normalised text.
C19_NoSentenceOneChunk ==
    (/\ dState = "done"
     /\ (Len(dSentences) = 0 \/ NoTerminal(normalise(dDoc.cleaned_text))))
    => (Len(dOut) = 1 /\ dOut[1].chunk_text = normalise(dDoc.cleaned_text))

\* C20: the chunks of a document carry chunk_index 0, 1, ..., n-1 in output
\* order, the document's id as parent_id, and as id the parent id joined by
\* "-" with the chunk_index.
C20_ContiguousIndexes ==
    dState = "done"
    => \A k \in 1..Len(dOut) :
         /\ dOut[k].chunk_index = k - 1
         /\ dOut[k].parent_id = dDoc.id
         /\ dOut[k].id = dDoc.id \o "-" \o ToString(dOut[k].chunk_index)

\* C20, reached: three chunks of the document "d-1", the last one with
\* chunk_index 2 and id "d-1-2".
C20_Witness ==
    /\ dState = "done" /\ dDoc.id = "d-1"
    /\ Len(dOut) = 3
    /\ dOut[1].chunk_index = 0 /\ dOut[1].id = "d-1-0"
    /\ dOut[3].chunk_index = 2 /\ dOut[3].id = "d-1-2"

\* C21: transform of a document whose cleaned_text is the chunk_text of a
\* chunk produced before, of chunk_token_count <= 512, gives exactly one
\* chunk, with that same text.
C21_RechunkOneChunk ==
    (/\ dState = "done"
     /\ dDepth > 0
     /\ approx_tokens(dDoc.cleaned_text) <= MAX_TOKENS)
    => (Len(dOut) = 1 /\ dOut[1].chunk_text = dDoc.cleaned_text)

\* The chunk lists of the documents, one after the other.
RECURSIVE Flatten(_)
Flatten(parts) == IF Len(parts) = 0 THEN <<>> ELSE Head(parts) \o Flatten(Tail(parts))

\* C27: transform_bulk returns the chunks transform gave for each document,
\* document after document in input order, each document's chunks in
\* chunk_index order.
C27_BulkConcatenation ==
    bState = "returned"
    => /\ Len(bParts) = Len(bDocs)
       /\ bAll = Flatten(bParts)
       /\ \A i \in 1..Len(bParts) : \A k \in 1..Len(bParts[i]) :
             /\ bParts[i][k].parent_id = bDocs[i].id
             /\ bParts[i][k].chunk_index = k - 1

\* C27, reached: two documents, the first of three chunks and the second of
\* one, gave four chunks, the second document's chunk last.
C27_Witness ==
    /\ bState = "returned"
    /\ Len(bDocs) = 2 /\ bDocs[1].id = "d" /\ bDocs[2].id = "e"
    /\ Len(bParts[1]) = 3 /\ Len(bParts[2]) = 1
    /\ Len(bAll) = 4 /\ bAll[3].id = "d-2" /\ bAll[4].id = "e-0"

\* C29: a chunk that follows another begins with the last 3 sentences of
\* that chunk (all of them when it has fewer), in their order, followed by
\* the sentence that did not fit.
C29_OverlapSeed ==
    dState = "done"
    => \A k \in 2..Len(dChunks) :
         LET prev == dChunks[k - 1].sentences
             cur == dChunks[k].sentences
             n == Min(3, Len(prev))
         IN /\ Len(cur) > n
            /\ SubSeq(cur, 1, n) = SubSeq(prev, Len(prev) - n + 1, Len(prev))
            /\ cur[n + 1] = prev[Len(prev)] + 1

\* C29, reached: the first chunk closed at 34 sentences and one of 2
\* sentences closed; the chunks after them begin with sentences 32, 33, 34
\* and 35, and with sentences 1, 2 and 3.
C29_Witness ==
    /\ dState = "done"
    /\ Len(dChunks) >= 2
    /\ \/ /\ Len(dChunks[1].sentences) = 34
          /\ SubSeq(dChunks[2].sentences, 1, 4) = <<32, 33, 34, 35>>
       \/ /\ Len(dChunks) = 3
          /\ dChunks[2].sentences = <<1, 2>>
          /\ dChunks[3].sentences = <<1, 2, 3>>

\* The text holds nothing but whitespace characters (or nothing at all).
OnlyWhitespace(text) == \A i \in 1..Len(text) : IsSpaceRun(text[i])

\* C22: the cleaned_text of every CleanDocument validate_and_clean produces
\* is non-empty, begins and ends with a character that is not whitespace,
\* has no whitespace run longer than one character, and holds no HTML
\* entity.
C22_CleanedTextInvariant ==
    \A k \in 1..Len(vCleaned) :
       LET t == vCleaned[k].cleaned_text
       IN /\ Len(t) > 0
          /\ ~IsSpaceRun(t[1]) /\ ~IsSpaceRun(t[Len(t)])
          /\ \A i \in 1..Len(t) : IsSpaceRun(t[i]) => t[i].n = 1
          /\ \A i \in 1..(Len(t) - 1) : ~(IsSpaceRun(t[i]) /\ IsSpaceRun(t[i + 1]))
          /\ \A i \in 1..Len(t) : t[i].d = 0

\* C23: clean_text applied to what clean_text returned gives the same text.
C23_CleanTextIdempotent ==
    (entry = "clean_text" /\ kCalls >= 2) => kText = kPrev

\* The messages of the rules that are on, in the order given.
RECURSIVE Messages(_)
Messages(rules) ==
    IF Len(rules) = 0 THEN <<>>
    ELSE (IF Head(rules).violated THEN <<Head(rules).msg>> ELSE <<>>) \o Messages(Tail(rules))

\* The four rules of validation for a document, with their messages.
Rules(doc) ==
    LET length == Len(Chars(doc.text))
    IN << [violated |-> OnlyWhitespace(doc.text), msg |-> "Empty text content"],
          [violated |-> length < 100,
           msg |-> "Text too short (<100 chars): " \o ToString(length)],
          [violated |-> doc.raw_format \notin
                          {"html", "markdown", "plaintext", "pdf", "csv", "json", "xml", "docx"},
           msg |-> "Unsupported format: " \o doc.raw_format],
          [violated |-> doc.title = "", msg |-> "Missing title"] >>

\* C24: validate returns valid exactly when no rule is violated, and its
\* error list holds one entry per violated rule (empty text, text shorter
\* than 100 characters, unsupported format, empty title), in that order.
C24_AllRulesChecked ==
    \A i \in 1..Len(vChecked) :
       LET rules == Rules(vDocs[i])
       IN /\ vChecked[i].valid = (\A r \in 1..4 : ~rules[r].violated)
          /\ vChecked[i].errors = Messages(rules)

\* C24, reached: a document with whitespace for text, an unsupported format
\* and no title got all four errors.
C24_Witness ==
    /\ Len(vChecked) = 1
    /\ vDocs[1].text = <<Run(" ", 0, 1)>>
    /\ vChecked[1].valid = FALSE
    /\ vChecked[1].errors = <<"Empty text content", "Text too short (<100 chars): 1",
                              "Unsupported format: rtf", "Missing title">>

\* C25: a document whose text is empty or whitespace only fails validation
\* with "Empty text content" among its errors, and is not in the output of
\* validate_clean_bulk.
C25_EmptyTextExcluded ==
    \A i \in 1..Len(vChecked) :
       OnlyWhitespace(vDocs[i].text)
       => /\ ~vChecked[i].valid
          /\ \E e \in 1..Len(vChecked[i].errors) : vChecked[i].errors[e] = "Empty text content"
          /\ \A k \in 1..Len(vCleaned) : vCleaned[k].id # vDocs[i].id

\* C25, reached: validate_clean_bulk returned nothing for a document of 100
\* spaces, titled and of a supported format, whose only error is the empty
\* text.
C25_Witness ==
    /\ vState = "returned"
    /\ Len(vDocs) = 1
    /\ vDocs[1].text = <<Run(" ", 0, 100)>>
    /\ vChecked[1].errors = <<"Empty text content">>
    /\ vCleaned = <<>>

\* The document passes validation.
Passes(doc) == is_valid(AsCharacters(doc))

\* C26: validate_clean_bulk returns the documents of its input that pass
\* validation, each with its cleaned text, in input order, each once.
C26_ValidSubsetInOrder ==
    vState = "returned"
    => LET kept == SelectSeq(vDocs, Passes)
       IN vCleaned = [k \in 1..Len(kept) |->
                        CleanDocument(kept[k], clean_text(kept[k].text))]

\* C26, reached: of three documents the second was dropped and the first
\* and the third returned, in that order.
C26_Witness ==
    /\ vState = "returned"
    /\ Len(vDocs) = 3
    /\ Len(vCleaned) = 2
    /\ vCleaned[1].id = "r1" /\ vCleaned[2].id = "r3"
    /\ vCleaned[1].cleaned_text # vCleaned[2].cleaned_text

\* A credential the construction driven reads is not set.
CredentialMissing ==
    LET google == ~env.GOOGLE_CSE_API_KEY \/ ~env.GOOGLE_CSE_ID
        tavily == ~env.TAVILY_API_KEY
    IN CASE entry = "google" -> google
         [] entry \in {"tavily_search", "tavily_extract"} -> tavily
         [] entry = "ingest" -> (~iInjected /\ google) \/ (~iTavily /\ tavily)
         [] OTHER -> FALSE

ConstructionFailed == built \in {"ValueError", "RuntimeError"}

\* C28: with the API key or the search-engine id missing GoogleSearchClient
\* cannot be constructed, and without TAVILY_API_KEY the Tavily client
\* cannot be obtained: the construction raises, and no search, page request
\* or extract is ever started, none retried.
C28_MissingCredentialsFatal ==
    /\ (built # "no" /\ CredentialMissing) => ConstructionFailed
    /\ ConstructionFailed
       => /\ gState = "idle" /\ gTasks = <<>> /\ gFetched = <<>>
          /\ tTask.pc = "idle" /\ ~tLast.has
          /\ xTasks = <<>> /\ ~xLast.has
          /\ iState = "idle"
          /\ memCache = <<>>

\* C28, reached: IngestionService() with the google settings present and
\* TAVILY_API_KEY missing ended with the RuntimeError of get_tavily_client.
C28_Witness ==
    /\ entry = "ingest" /\ ~iInjected /\ ~iTavily
    /\ env.GOOGLE_CSE_API_KEY /\ env.GOOGLE_CSE_ID /\ ~env.TAVILY_API_KEY
    /\ built = "RuntimeError"

\* C30: a page request, a Tavily search or an extract that the provider
\* answered is not turned into a failure or a retry by the write of the
\* answer to the cache.
C30_CacheWriteNeverFails ==
    /\ \A i \in 1..Len(gTasks) : gTasks[i].ok => gTasks[i].pc # "raised"
    /\ \A t \in TavilyTasks : t.pc \in {"raised", "backoff"} => IsNone(t.got)

\* C31: after validate_and_clean on an invalid document nothing is returned
\* for it and its metadata["validation_errors"] is the error list validate
\* returned for it, whatever its metadata held before.
C31_ErrorsRecorded ==
    \A i \in 1..Len(vChecked) :
       ~vChecked[i].valid
       => /\ \A k \in 1..Len(vCleaned) : vCleaned[k].id # vDocs[i].id
          /\ "validation_errors" \in DOMAIN vDocs[i].metadata
          /\ vDocs[i].metadata["validation_errors"] = vChecked[i].errors

\* C37: for a document that passes validation, validate_and_clean returns a
\* CleanDocument with the id, title, raw_format, text, url and metadata of
\* the document and with cleaned_text = clean_text(text), and the document
\* is as it was given.
C37_ValidDocumentFrame ==
    \A i \in 1..Len(vChecked) :
       vChecked[i].valid
       => /\ vDocs[i] = vGiven[i]
          /\ \E k \in 1..Len(vCleaned) :
                LET c == vCleaned[k]
                    g == vGiven[i]
                IN /\ DOMAIN c = {"id", "title", "raw_format", "text", "url",
                                  "metadata", "cleaned_text"}
                   /\ c.id = g.id /\ c.title = g.title /\ c.raw_format = g.raw_format
                   /\ c.text = g.text /\ c.url = g.url /\ c.metadata = g.metadata
                   /\ c.cleaned_text = str_strip(collapse(html_unescape(g.text)))

\* C37, reached: a valid document with metadata, whose text begins with a
\* space and holds escaped characters, was returned cleaned.
C37_Witness ==
    /\ Len(vChecked) >= 1
    /\ vChecked[1].valid
    /\ vGiven[1].metadata = [source |-> "google_cse+tavily"]
    /\ vGiven[1].text = <<Run(" ", 0, 1), Run("<", 1, 100)>>
    /\ vCleaned[1].text = vGiven[1].text
    /\ vCleaned[1].cleaned_text = <<Run("<", 0, 100)>>

\* The sentences chunk k holds after those it was seeded with.
AfterOverlap(k) ==
    SubSeq(dChunks[k].sentences, dChunks[k].carried + 1, Len(dChunks[k].sentences))

\* C36: every sentence of the document is in at least one chunk, and the
\* chunks in chunk_index order, each without the overlap sentences it begins
\* with, give the sentences of the document one after the other; the text
\* of a chunk is its sentences joined.
C36_NoSentenceLost ==
    dState = "done"
    => /\ \A i \in 1..Len(dSentences) :
             \E k \in 1..Len(dChunks) :
                \E j \in 1..Len(dChunks[k].sentences) : dChunks[k].sentences[j] = i
       /\ Flatten([k \in 1..Len(dChunks) |-> AfterOverlap(k)])
             = [i \in 1..Len(dSentences) |-> i]
       /\ \A k \in 1..Len(dChunks) :
             /\ dOut[k].chunk_index = k - 1
             /\ dOut[k].chunk_text =
                   join([j \in 1..Len(dChunks[k].sentences) |->
                            dSentences[dChunks[k].sentences[j]]])
             /\ k > 1 => SubSeq(dChunks[k].sentences, 1, dChunks[k].carried)
                           = LastN(dChunks[k - 1].sentences, dChunks[k].carried)

\* C36, reached: of 40 sentences the first 34 went into the first chunk and
\* the second chunk holds sentences 32 to 34 again and then 35 to 40.
C36_Witness ==
    /\ dState = "done"
    /\ Len(dSentences) = 40
    /\ Len(dChunks) = 2
    /\ Len(dChunks[1].sentences) = 34
    /\ dChunks[2].carried = 3
    /\ AfterOverlap(2) = <<35, 36, 37, 38, 39, 40>>

\* C38: in every chunk transform produces, the metadata entries parent_id,
\* chunk_index and chunk_token_count are the parent_id, chunk_index and
\* chunk_token_count of the chunk, whatever the metadata of the parent
\* document held.
C38_MetadataLinkage ==
    dState = "done"
    => \A k \in 1..Len(dOut) :
          /\ {"parent_id", "chunk_index", "chunk_token_count"} \subseteq DOMAIN dOut[k].metadata
          /\ dOut[k].metadata["parent_id"] = dOut[k].parent_id
          /\ dOut[k].metadata["chunk_index"] = dOut[k].chunk_index
          /\ dOut[k].metadata["chunk_token_count"] = dOut[k].chunk_token_count

-----------------------------------------------------------------------------
(* Back-off and ranks *)

\* C32: while a page request or an extract sleeps in back-off, every other
\* page request or extract of the same call that has not finished can take
\* its next step.
C32_BackoffDelaysOnlyItsTask ==
    /\ \A i \in 1..Len(gTasks) : \A j \in 1..Len(gTasks) :
          (/\ i # j
           /\ gState = "running"
           /\ gTasks[i].pc = "backoff"
           /\ gTasks[j].pc \in {"pending", "backoff"})
          => ENABLED SearchPageStep(j)
    /\ \A i \in 1..Len(xTasks) : \A j \in 1..Len(xTasks) :
          (/\ i # j
           /\ xTasks[i].pc = "backoff"
           /\ xTasks[j].pc \in {"pending", "backoff"})
          => ENABLED ExtractStep(j)

\* C32, reached: the first page request sleeps after its first attempt and
\* the second page request, the only one to have finished, has returned.
C32_Witness ==
    /\ gState = "running"
    /\ Len(gTasks) = 2
    /\ gTasks[1].pc = "backoff" /\ gTasks[1].attempts = 1
    /\ gTasks[2].pc = "done"
    /\ gOrder = <<2>>

Max(a, b) == IF a > b THEN a ELSE b

\* The delays a task slept do not decrease.
NonDecreasing(seq) == \A n \in 1..(Len(seq) - 1) : seq[n] <= seq[n + 1]

\* C33 as stated: the delay before retry n is base * 2^(n-1) capped at the
\* ceiling in both wrappers (1 s and 10 s for the page requests, 0.5 s and
\* no ceiling for the Tavily wrapper), and the delays do not decrease.
C33_DelayIsBaseTimesPower ==
    /\ \A i \in 1..Len(gTasks) :
          /\ \A n \in 1..Len(gTasks[i].slept) :
                gTasks[i].slept[n] = Min(1000 * 2 ^ (n - 1), 10000)
          /\ NonDecreasing(gTasks[i].slept)
    /\ \A t \in TavilyTasks :
          /\ \A n \in 1..Len(t.slept) : t.slept[n] = 500 * 2 ^ (n - 1)
          /\ NonDecreasing(t.slept)

\* C33 amended: the delay a page request sleeps before retry n is
\* 1 s * 2^(n-1) brought into [2 s, 10 s]; the delay the Tavily wrapper sleeps
\* is 0.5 s * 2^(n-1), without ceiling; no delay of a page request exceeds
\* 10 s and the delays do not decrease in n.
C33_DelayClamped ==
    /\ \A i \in 1..Len(gTasks) :
          /\ \A n \in 1..Len(gTasks[i].slept) :
                /\ gTasks[i].slept[n] = Max(2000, Min(1000 * 2 ^ (n - 1), 10000))
                /\ gTasks[i].slept[n] <= 10000
          /\ NonDecreasing(gTasks[i].slept)
    /\ \A t \in TavilyTasks :
          /\ \A n \in 1..Len(t.slept) : t.slept[n] = 500 * 2 ^ (n - 1)
          /\ NonDecreasing(t.slept)
    /\ \A n \in 1..MaxAttemptNumber :
          /\ wait_exponential(n) = Max(2000, Min(1000 * 2 ^ (n - 1), 10000))
          /\ wait_exponential(n) <= wait_exponential(n + 1)
          /\ sleep_for(n) < sleep_for(n + 1)

\* C33, reached: a page request slept 2 s before each of its two retries.
C33_Witness ==
    \E i \in 1..Len(gTasks) :
       /\ gTasks[i].attempts = 3
       /\ gTasks[i].slept = <<2000, 2000>>

\* C34: each result GoogleSearchClient.search returns carries a rank equal
\* to its position, from 1, in the list returned.
C34_RankIsPosition ==
    (entry = "google" /\ gState = "returned")
    => \A k \in 1..Len(gRet) :
          LET r == search_result(gRet[k])
          IN /\ "rank" \in DOMAIN r
             /\ r["rank"] = k

\* C35: whatever the provider answers, a page request makes at most 3
\* attempts, an extract is invoked at most 3 times, and a call of
\* ingest_topic that has begun returns its list.
C35_IngestTerminates ==
    /\ [](/\ \A i \in 1..Len(gTasks) : gTasks[i].attempts <= 3
          /\ \A i \in 1..Len(xTasks) : xTasks[i].invoked <= 3
          /\ iState # "raised")
    /\ (iState \in {"searching", "fetching"}) ~> (iState = "returned")

\* C35, reached: ingest_topic returned after the page came from the shared
\* store and an extract was invoked 3 times and gave up.
C35_Witness ==
    /\ iState = "returned"
    /\ Len(gTasks) = 1 /\ gTasks[1].pc = "done"
    /\ \E i \in 1..Len(xTasks) : xTasks[i].pc = "raised" /\ xTasks[i].invoked = 3

-----------------------------------------------------------------------------
(* Report generation *)

\* C39: whenever get_generation_progress gives status "completed" (progress
\* 100) for an id, get_report returns the report stored under that id; the
\* status is "failed" exactly when the progress is -1 and "in_progress" for
\* every value other than 100 and -1; both queries raise for an id that was
\* never started.
C39_CompletedMeansStored ==
    /\ \A report_id \in QueryIds :
          LET p == get_generation_progress(report_id)
              r == get_report(report_id)
          IN IF report_id \notin DOMAIN rTasks
             THEN p.raised = "ValueError" /\ r.raised = "ValueError"
             ELSE /\ p.raised = ""
                  /\ p.progress = rProgress[report_id]
                  /\ (p.status = "completed") = (p.progress = 100)
                  /\ (p.status = "failed") = (p.progress = -1)
                  /\ (p.status = "in_progress") = (p.progress \notin {100, -1})
                  /\ p.status = "completed"
                     => (r.raised = "" /\ r.report = rReports[report_id]
                         /\ r.report.id = report_id)
    /\ rAnswer.op # "none"
       => IF rAnswer.id \notin DOMAIN rTasks
          THEN rAnswer.raised = "ValueError"
          ELSE /\ (rAnswer.op = "get_generation_progress" /\ rAnswer.status = "completed")
                  => get_report(rAnswer.id).raised = ""
             /\ (rAnswer.op = "get_report" /\ rAnswer.raised = "")
                  => rAnswer.report.id = rAnswer.id

\* C39, reached: one report is complete and was returned by get_report, the
\* other one failed during the analysis and has no report.
C39_Witness ==
    /\ DOMAIN rTasks = ReportIds
    /\ get_generation_progress("r1").status = "completed"
    /\ rAnswer = get_report("r1") /\ rAnswer.raised = ""
    /\ get_generation_progress("r2").status = "failed"
    /\ get_report("r2").raised = "ValueError"

====
